---- MODULE Spec2Model ----
(***************************************************************************)
(* The memory subsystem of second-brain: the SQLite store of               *)
(* src/memory/storage.py (tables memories, embeddings, the FTS5 index      *)
(* memories_fts and its three triggers) and the hybrid retrieval of        *)
(* src/memory/retrieval.py.                                                *)
(*                                                                         *)
(* Encoding.  A text is a sequence of words, "" is << >>.  An optional     *)
(* value (Python None / SQL NULL) is << >>, a present value x is <<x>>.    *)
(* Real numbers in [0,1] are integers in percent.  An embedding vector is  *)
(* a pair of integers.                                                     *)
(***************************************************************************)
EXTENDS Integers, Sequences, FiniteSets, TLC

VARIABLES
    memories,      \* table memories: id -> row
    embeddings,    \* table embeddings: memory_id -> row
    memories_fts,  \* the FTS5 index: postings and per-column totals
    lastRowId,     \* sqlite_sequence of memories (AUTOINCREMENT)
    now,           \* CURRENT_TIMESTAMP / datetime.now(), in days
    calls,         \* number of mutating calls made so far
    last,          \* the call that just returned: operation, arguments, result
    thr,           \* per thread: position inside a store call
    inTxn,         \* the shared connection has an open transaction
    accDone,       \* per id: update_access_stats calls that returned after hitting the row
    accRaised,     \* per id: update_access_stats calls that raised
    _cache,        \* EmbeddingService._cache: digest -> vector
    ethr,          \* per thread: position inside a call of the EmbeddingService
    session,       \* server.py: the fields of the one ClientSession
    loop,          \* server.py: position of websocket_transcribe in its receive loop
    tasks,         \* server.py: the running tasks made for Speechmatics callbacks
    processing,    \* server.py: the tasks of _process_utterances, in creation order
    sent,          \* server.py: the JSON message the last step handed to the WebSocket
    answered,      \* server.py: the agent_response and agent_error messages sent so far
    enqueued,      \* server.py: the prompts passed to _enqueue_prompt so far, in order
    received,      \* server.py: number of client messages received
    heard,         \* server.py: number of texts made so far (transcripts and chat texts)
    app,           \* app.py: the fields of the SecondBrainApp
    prompts,       \* app.py: the QueuedPrompt objects, by id
    atasks,        \* app.py: the process_queue tasks created, in creation order
    agent,         \* delegation_agent.py: the call of process_utterance_with_tools
    shutdown       \* server.py: position of shutdown_event in session.close()

vars == <<memories, embeddings, memories_fts, lastRowId, now, calls, last, thr, inTxn,
          accDone, accRaised, _cache, ethr,
          session, loop, tasks, processing, sent, answered, enqueued, received, heard,
          app, prompts, atasks, agent, shutdown>>

----------------------------------------------------------------------------
(* Bounds of the model *)

MaxCalls == 2
MaxClock == 1
NumThreads == 2

Ids == 1..(MaxCalls + 1)
Threads == 1..NumThreads

----------------------------------------------------------------------------
(* Values *)

NoneVal == << >>
Some(x) == <<x>>
IsNone(o) == o = << >>

(* A text is a sequence of symbols: a word, or one of the characters
   space, newline, hyphen and comma. *)
EmptyText == << >>

SP == " "

NL == "\n"

Whitespace == {SP, NL}

Dashes == <<"-", "-", "-">>

StartsWith(s, prefix) == Len(s) >= Len(prefix) /\ SubSeq(s, 1, Len(prefix)) = prefix

Drop(s, n) == SubSeq(s, n + 1, Len(s))

(* str.strip() *)
RECURSIVE LStrip(_)
LStrip(s) == IF s # << >> /\ Head(s) \in Whitespace THEN LStrip(Tail(s)) ELSE s

RECURSIVE RStrip(_)
RStrip(s) ==
    IF s # << >> /\ s[Len(s)] \in Whitespace THEN RStrip(SubSeq(s, 1, Len(s) - 1)) ELSE s

Strip(s) == RStrip(LStrip(s))

Contents == {<<"alpha">>, <<"delta", "beta">>}
Titles == {NoneVal, Some(<<"gamma">>)}
(* a Python list and a Python tuple with the same items are different values *)
PyList(items) == [py |-> "list", items |-> items]
PyTuple(items) == [py |-> "tuple", items |-> items]

(* a metadata mapping: string keys to values *)
EmptyDict == [k \in {} |-> PyList(<< >>)]
TagsDict == [tags |-> PyList(<<"alpha", "beta">>)]
TupleDict == [tags |-> PyTuple(<<"alpha", "beta">>)]
ImportanceDefault == 50
ImportanceInputs == {ImportanceDefault, 150}

(* json.dumps of a metadata mapping with string keys: a list and a tuple
   are both written as a JSON array *)
JsonDumps(d) == [json |-> [k \in DOMAIN d |-> [array |-> d[k].items]]]

(* JsonLoads as a reader that gives a tuple for a JSON array *)
JsonLoads_Tuple(s) == [k \in DOMAIN s.json |-> PyTuple(s.json[k].array)]

(* json.loads: a JSON array is read as a list *)
JsonLoads(s) == [k \in DOMAIN s.json |-> PyList(s.json[k].array)]

----------------------------------------------------------------------------
(* FTS5 index memories_fts: an external-content table over memories.
   postings: set of <<rowid, term>>; title, content: the running token
   totals of the two columns; rows: the running row total. *)

(* the unicode61 tokenizer: white space and punctuation separate the tokens
   and are no tokens themselves *)
Separators == {" ", "\n", "-", ","}

IsWord(symbol) == symbol \notin Separators

Words(text) == SelectSeq(text, IsWord)

Tokens(text) == {Words(text)[i] : i \in 1..Len(Words(text))}

TokenCount(text) == Len(Words(text))

OptText(o) == IF IsNone(o) THEN EmptyText ELSE o[1]

RowTerms(title, content) == Tokens(OptText(title)) \cup Tokens(content)

EmptyFts == [postings |-> {}, title |-> 0, content |-> 0, rows |-> 0]

(* INSERT INTO memories_fts(rowid, title, content) VALUES (...) *)
FtsInsert(f, rowid, title, content) ==
    [postings |-> f.postings \cup {<<rowid, t>> : t \in RowTerms(title, content)},
     title |-> f.title + TokenCount(OptText(title)),
     content |-> f.content + TokenCount(content),
     rows |-> f.rows + 1]

(* DELETE FROM memories_fts WHERE rowid = ?: the rowid is looked up in the
   content table as it is now; a row that is not there is not visited, and
   for a row that is there the postings of its present text are removed and
   its present token counts are taken off the totals. *)
FtsDelete(f, table, rowid) ==
    IF rowid \in DOMAIN table
    THEN [postings |-> f.postings \
                         {<<rowid, t>> : t \in RowTerms(table[rowid].title, table[rowid].content)},
          title |-> f.title - TokenCount(OptText(table[rowid].title)),
          content |-> f.content - TokenCount(table[rowid].content),
          rows |-> f.rows - 1]
    ELSE f

(* FTS5 reports SQLITE_CORRUPT ("database disk image is malformed") when a
   delete would take a total below zero *)
FtsDeleteCorrupt(f, table, rowid) ==
    /\ rowid \in DOMAIN table
    /\ \/ f.title < TokenCount(OptText(table[rowid].title))
       \/ f.content < TokenCount(table[rowid].content)
       \/ f.rows < 1

(* trigger memories_ai AFTER INSERT *)
TriggerAI(f, table, newId) ==
    FtsInsert(f, newId, table[newId].title, table[newId].content)

(* trigger memories_ad AFTER DELETE: table is the table after the delete *)
TriggerAD(f, table, oldId) == FtsDelete(f, table, oldId)

(* trigger memories_au AFTER UPDATE: table is the table after the update *)
TriggerAU(f, table, id) ==
    FtsInsert(FtsDelete(f, table, id), id, table[id].title, table[id].content)

(* sqlite3.connect without PRAGMA foreign_keys = ON: the ON DELETE CASCADE
   of embeddings.memory_id is not enforced *)
ForeignKeysOn == FALSE

Put(table, id, row) == [i \in DOMAIN table \cup {id} |-> IF i = id THEN row ELSE table[i]]

Remove(table, id) == [i \in DOMAIN table \ {id} |-> table[i]]

CascadeDelete(emb, id) == IF ForeignKeysOn THEN Remove(emb, id) ELSE emb

----------------------------------------------------------------------------
(* Points in time and their texts in the column timestamp.  A point in time
   is a day of the clock and a time within the day; the time of day at which
   a row is written is the row's number, so that later rows have later
   times, and midnight is 0.  The text of a point in time has the date, the
   character between date and time, and the time: compared as strings, the
   date decides first, then that character, then the time. *)

DateTime(day, time) == [day |-> day, time |-> time]

(* DEFAULT CURRENT_TIMESTAMP: 'YYYY-MM-DD HH:MM:SS' *)
CURRENT_TIMESTAMP == [day |-> now, sep |-> " ", time |-> lastRowId + 1]

(* datetime.isoformat(): 'YYYY-MM-DDTHH:MM:SS' *)
isoformat(dt) == [day |-> dt.day, sep |-> "T", time |-> dt.time]

(* datetime.fromisoformat reads both *)
fromisoformat(text) == DateTime(text.day, text.time)

(* string comparison of two timestamp texts; " " sorts before "T" *)
TextLess(a, b) ==
    \/ a.day < b.day
    \/ a.day = b.day /\ a.sep = " " /\ b.sep = "T"
    \/ a.day = b.day /\ a.sep = b.sep /\ a.time < b.time

----------------------------------------------------------------------------
(* SQL statements on memories, each with its triggers.  A statement that
   fails is rolled back whole. *)

NewRow(memory_type, title, content, metadata_json, timestamp, importance, source_type, source_id) ==
    [memory_type |-> memory_type, title |-> title, content |-> content,
     metadata |-> metadata_json, timestamp |-> timestamp,
     importance_score |-> importance, access_count |-> 0,
     last_accessed |-> NoneVal, source_type |-> source_type, source_id |-> source_id]

(* InsertStmt on a table whose id is INTEGER PRIMARY KEY without
   AUTOINCREMENT: the new rowid is one more than the largest in the table *)
InsertStmt_MaxRowid(table, f, seq, row) ==
    LET id == IF DOMAIN table = {} THEN 1
              ELSE 1 + CHOOSE m \in DOMAIN table : \A j \in DOMAIN table : j <= m
        t2 == Put(table, id, row)
    IN  [table |-> t2, fts |-> TriggerAI(f, t2, id), lastRowId |-> id]

(* INSERT INTO memories: id is AUTOINCREMENT, one more than the largest id
   the table ever had (sqlite_sequence) *)
InsertStmt(table, f, seq, row) ==
    LET t2 == Put(table, seq + 1, row)
    IN  [table |-> t2, fts |-> TriggerAI(f, t2, seq + 1), lastRowId |-> seq + 1]

UpdateStmt(table, f, id, row) ==
    IF id \notin DOMAIN table
    THEN [table |-> table, fts |-> f, raised |-> FALSE, rowcount |-> 0]
    ELSE LET t2 == Put(table, id, row)
         IN  IF FtsDeleteCorrupt(f, t2, id)
             THEN [table |-> table, fts |-> f, raised |-> TRUE, rowcount |-> 0]
             ELSE [table |-> t2, fts |-> TriggerAU(f, t2, id), raised |-> FALSE, rowcount |-> 1]

DeleteStmt(table, f, emb, id) ==
    IF id \notin DOMAIN table
    THEN [table |-> table, fts |-> f, embeddings |-> emb, rowcount |-> 0]
    ELSE LET t2 == Remove(table, id)
         IN  [table |-> t2, fts |-> TriggerAD(f, t2, id),
              embeddings |-> CascadeDelete(emb, id), rowcount |-> 1]

----------------------------------------------------------------------------
(* Embedding service (src/memory/embeddings.py) *)

Zero == <<0, 0>>

(* SentenceTransformer.encode: a fixed vector per text; the vectors of the
   texts of the model all have norm 5 *)
ModelEncode(text) ==
    IF "alpha" \in Tokens(text) THEN <<3, 4>>
    ELSE IF "delta" \in Tokens(text) THEN <<4, 3>>
    ELSE IF "beta" \in Tokens(text) THEN <<0, 5>>
    ELSE <<5, 0>>

(* what embed_text returns: the zero vector for "not text or not
   text.strip()", else the vector of the model, from the cache or computed *)
embed_text(text) == IF Strip(text) = EmptyText THEN Zero ELSE ModelEncode(text)

serialize_embedding(v) == [pickle |-> v]

deserialize_embedding(blob) == blob.pickle

ModelName == "sentence-transformers/all-MiniLM-L6-v2"

(* f"{title or ''} {content}".strip() *)
EmbeddingText(title, content) == OptText(title) \o content

EmbeddingRow(title, content) ==
    [embedding |-> serialize_embedding(embed_text(EmbeddingText(title, content))),
     model_version |-> ModelName]

----------------------------------------------------------------------------
(* MemoryDatabase, one call at a time *)

(* a fresh database: _create_schema on an empty file *)
InitEmpty ==
    /\ memories = << >>
    /\ embeddings = << >>
    /\ memories_fts = EmptyFts
    /\ lastRowId = 0

SeedRow ==
    NewRow("note", NoneVal, <<"alpha">>, JsonDumps(EmptyDict),
           [day |-> 0, sep |-> " ", time |-> 1], ImportanceDefault,
           "manual", NoneVal)

SeedCount == 1

(* a database file that earlier runs left behind: the store after
   add_memory_with_embedding("alpha") and then update_access_stats(1) *)
InitSeeded ==
    LET r == InsertStmt(<< >>, EmptyFts, 0, SeedRow)
        u == UpdateStmt(r.table, r.fts, 1,
                        [r.table[1] EXCEPT !.access_count = SeedCount, !.last_accessed = Some(0)])
    IN  /\ memories = u.table
        /\ memories_fts = u.fts
        /\ lastRowId = r.lastRowId
        /\ embeddings = Put(<< >>, r.lastRowId, EmbeddingRow(NoneVal, <<"alpha">>))

(* ClientSession.__init__, and websocket_transcribe about to receive *)
InitSession ==
    /\ session = [recording_state |-> "idle", ws_connected |-> TRUE,
                  speechmatics |-> NoneVal, _pending_utterances |-> << >>,
                  _processing_task |-> NoneVal]
    /\ loop = [pc |-> "receive"]
    /\ tasks = << >>
    /\ processing = << >>
    /\ sent = << >>
    /\ answered = << >>
    /\ enqueued = << >>
    /\ received = 0
    /\ heard = 0
    /\ shutdown = [pc |-> "idle", state |-> NoneVal]

(* SecondBrainApp.__init__ *)
InitApp ==
    /\ app = [current_utterance |-> << >>, prompt_queue |-> << >>,
              completed_prompts |-> << >>, prompt_counter |-> 0,
              is_processing |-> FALSE, processing_task |-> NoneVal]
    /\ prompts = << >>
    /\ atasks = << >>

SessionUnchanged ==
    UNCHANGED <<session, loop, tasks, processing, sent, answered, enqueued, received, heard,
                shutdown>>

AppUnchanged == UNCHANGED <<app, prompts, atasks>>

(* no call of process_utterance_with_tools has been made *)
InitAgent == agent = [pc |-> "idle"]

AgentUnchanged == UNCHANGED agent

(* the start of a run in which made calls were made before *)
InitRunAt(made) ==
    /\ now = 0
    /\ calls = made
    /\ last = [op |-> "init", raised |-> FALSE]
    /\ thr = [t \in Threads |-> [pc |-> "idle"]]
    /\ inTxn = FALSE
    /\ accDone = [i \in Ids |-> 0]
    /\ accRaised = [i \in Ids |-> 0]
    /\ _cache = << >>
    /\ ethr = [t \in Threads |-> [pc |-> "idle"]]
    /\ InitSession
    /\ InitApp
    /\ InitAgent

InitRun == InitRunAt(0)

Init == (InitEmpty \/ InitSeeded) /\ InitRun

Idle == \A t \in Threads : thr[t].pc = "idle"

(* the store's calls are modelled by what the embedder returns to them; the
   EmbeddingService below is an instance of its own, and so are the server's
   ClientSession and the SecondBrainApp *)
ServiceUnchanged ==
    UNCHANGED <<_cache, ethr>> /\ SessionUnchanged /\ AppUnchanged /\ AgentUnchanged

ConcUnchanged == UNCHANGED <<thr, accDone, accRaised>> /\ ServiceUnchanged

(* metadata_json = json.dumps(metadata) if metadata else "{}" *)
MetadataJson(metadata) ==
    IF IsNone(metadata) \/ metadata = Some(EmptyDict)
    THEN JsonDumps(EmptyDict) ELSE JsonDumps(metadata[1])

AddRow(content, memory_type, title, metadata, source_type, source_id, importance) ==
    NewRow(memory_type, title, content, MetadataJson(metadata), CURRENT_TIMESTAMP,
           importance, source_type, source_id)

add_memory(content, memory_type, title, metadata, source_type, source_id, importance_score) ==
    /\ Idle /\ calls < MaxCalls
    /\ LET r == InsertStmt(memories, memories_fts, lastRowId,
                           AddRow(content, memory_type, title, metadata, source_type,
                                  source_id, importance_score))
       IN  /\ memories' = r.table
           /\ memories_fts' = r.fts
           /\ lastRowId' = r.lastRowId
           /\ last' = [op |-> "add_memory", raised |-> FALSE, id |-> r.lastRowId,
                       args |-> [content |-> content, memory_type |-> memory_type,
                                 title |-> title, metadata |-> metadata,
                                 source_type |-> source_type, source_id |-> source_id,
                                 importance_score |-> importance_score]]
    /\ inTxn' = FALSE
    /\ calls' = calls + 1
    /\ UNCHANGED <<embeddings, now>>
    /\ ConcUnchanged

_row_to_memory(id, row) ==
    [id |-> id, memory_type |-> row.memory_type, title |-> row.title,
     content |-> row.content, metadata |-> JsonLoads(row.metadata),
     timestamp |-> fromisoformat(row.timestamp), importance_score |-> row.importance_score,
     access_count |-> row.access_count, last_accessed |-> row.last_accessed,
     source_type |-> row.source_type, source_id |-> row.source_id]

GetMemory(table, id) ==
    IF id \in DOMAIN table THEN Some(_row_to_memory(id, table[id])) ELSE NoneVal

get_memory(id) ==
    /\ Idle
    /\ last' = [op |-> "get_memory", raised |-> FALSE, id |-> id, ret |-> GetMemory(memories, id)]
    /\ UNCHANGED <<memories, embeddings, memories_fts, lastRowId, now, calls, inTxn>>
    /\ ConcUnchanged

UpdateArgs ==
    [title : {NoneVal, Some(<<"gamma">>)},
     content : {NoneVal} \cup {Some(c) : c \in Contents},
     metadata : {NoneVal, Some(TagsDict)},
     importance_score : {NoneVal, Some(150)}]

NoUpdates(a) ==
    IsNone(a.title) /\ IsNone(a.content) /\ IsNone(a.metadata) /\ IsNone(a.importance_score)

(* UpdatedRow as a rewrite of the whole row that resets the access count *)
UpdatedRow_ResetCount(row, a) ==
    [row EXCEPT !.title = IF IsNone(a.title) THEN @ ELSE a.title,
                !.content = IF IsNone(a.content) THEN @ ELSE a.content[1],
                !.metadata = IF IsNone(a.metadata) THEN @ ELSE JsonDumps(a.metadata[1]),
                !.importance_score = IF IsNone(a.importance_score) THEN @ ELSE a.importance_score[1],
                !.access_count = 0]

(* UPDATE memories SET <the supplied columns> WHERE id = ? *)
UpdatedRow(row, a) ==
    [row EXCEPT !.title = IF IsNone(a.title) THEN @ ELSE a.title,
                !.content = IF IsNone(a.content) THEN @ ELSE a.content[1],
                !.metadata = IF IsNone(a.metadata) THEN @ ELSE JsonDumps(a.metadata[1]),
                !.importance_score = IF IsNone(a.importance_score) THEN @ ELSE a.importance_score[1]]

update_memory(id, a) ==
    /\ Idle /\ calls < MaxCalls
    /\ IF IsNone(GetMemory(memories, id))
       THEN /\ last' = [op |-> "update_memory", raised |-> FALSE, id |-> id, args |-> a, ret |-> FALSE]
            /\ UNCHANGED <<memories, memories_fts, inTxn>>
       ELSE IF NoUpdates(a)
       THEN /\ last' = [op |-> "update_memory", raised |-> FALSE, id |-> id, args |-> a, ret |-> TRUE]
            /\ UNCHANGED <<memories, memories_fts, inTxn>>
       ELSE LET r == UpdateStmt(memories, memories_fts, id, UpdatedRow(memories[id], a))
            IN  /\ memories' = r.table
                /\ memories_fts' = r.fts
                /\ inTxn' = r.raised
                /\ last' = [op |-> "update_memory", raised |-> r.raised, id |-> id,
                            args |-> a, ret |-> ~r.raised]
    /\ calls' = calls + 1
    /\ UNCHANGED <<embeddings, lastRowId, now>>
    /\ ConcUnchanged

(* DeleteResult as "the statement ran" *)
DeleteResult_Always(rowcount) == rowcount >= 0

(* return cursor.rowcount > 0 *)
DeleteResult(rowcount) == rowcount > 0

delete_memory(id) ==
    /\ Idle /\ calls < MaxCalls
    /\ LET r == DeleteStmt(memories, memories_fts, embeddings, id)
       IN  /\ memories' = r.table
           /\ memories_fts' = r.fts
           /\ embeddings' = r.embeddings
           /\ last' = [op |-> "delete_memory", raised |-> FALSE, id |-> id,
                       ret |-> DeleteResult(r.rowcount)]
    /\ inTxn' = FALSE
    /\ calls' = calls + 1
    /\ UNCHANGED <<lastRowId, now>>
    /\ ConcUnchanged

(* AccessedRow as a read in Python followed by a write of the value read + 1 *)
AccessedRow_ReadThenWrite(row, t, seen) ==
    [row EXCEPT !.access_count = seen + 1, !.last_accessed = Some(t)]

(* SET access_count = access_count + 1, last_accessed = CURRENT_TIMESTAMP:
   the count is read and written inside the one UPDATE statement; seen is the
   count as it was when the call started, which the statement does not use *)
AccessedRow(row, t, seen) ==
    [row EXCEPT !.access_count = @ + 1, !.last_accessed = Some(t)]

CountOf(table, id) == IF id \in DOMAIN table THEN table[id].access_count ELSE 0

AccessStmt(table, f, id, t, seen) ==
    UpdateStmt(table, f, id,
               IF id \in DOMAIN table THEN AccessedRow(table[id], t, seen) ELSE << >>)

update_access_stats(id) ==
    /\ Idle /\ calls < MaxCalls
    /\ LET r == AccessStmt(memories, memories_fts, id, now, CountOf(memories, id))
       IN  /\ memories' = r.table
           /\ memories_fts' = r.fts
           /\ inTxn' = r.raised
           /\ last' = [op |-> "update_access_stats", raised |-> r.raised, id |-> id]
    /\ calls' = calls + 1
    /\ UNCHANGED <<embeddings, lastRowId, now>>
    /\ ConcUnchanged

(* In the text of notes.txt "Date:" and "Tags:" are symbols of their own. *)
(* str.split(sep): the pieces between the occurrences of sep, found from
   the left *)
RECURSIVE SplitFrom(_, _, _)
SplitFrom(s, sep, piece) ==
    IF s = << >> THEN <<piece>>
    ELSE IF StartsWith(s, sep)
         THEN <<piece>> \o SplitFrom(Drop(s, Len(sep)), sep, << >>)
         ELSE SplitFrom(Tail(s), sep, Append(piece, Head(s)))

Split(s, sep) == SplitFrom(s, sep, << >>)

(* str.replace(old, ''): every occurrence of old, found from the left, is
   taken out *)
RECURSIVE Erase(_, _)
Erase(s, old) ==
    IF s = << >> THEN << >>
    ELSE IF StartsWith(s, old) THEN Erase(Drop(s, Len(old)), old)
         ELSE <<Head(s)>> \o Erase(Tail(s), old)

(* sep.join(parts) *)
RECURSIVE Join(_, _)
Join(parts, sep) ==
    IF parts = << >> THEN << >>
    ELSE IF Len(parts) = 1 THEN parts[1]
         ELSE parts[1] \o sep \o Join(Tail(parts), sep)

IsDateLine(line) == StartsWith(line, <<"Date:">>)

IsTagsLine(line) == ~IsDateLine(line) /\ StartsWith(line, <<"Tags:">>)

IsContentLine(line) == ~IsDateLine(line) /\ ~StartsWith(line, <<"Tags:">>)

NonEmpty(s) == s # << >>

(* [t.strip() for t in tags_str.split(',') if t.strip()] *)
TagList(tags_str) ==
    LET parts == Split(tags_str, <<",">>)
    IN  SelectSeq([i \in 1..Len(parts) |-> Strip(parts[i])], NonEmpty)

(* datetime.strptime with the three formats: the two dates of the inputs
   that parse are the day the clock starts and thirty days before it, both
   without a time and so at midnight *)
ParseDate(date_str) ==
    IF date_str = <<"2024-03-31">> THEN Some(DateTime(0, 0))
    ELSE IF date_str = <<"2024-03-01">> THEN Some(DateTime(-30, 0))
    ELSE NoneVal

(* the while loop over the lines of one stripped, non-empty note_text *)
ParseNote(note_text) ==
    LET raw == Split(note_text, <<NL>>)
        lines == [i \in 1..Len(raw) |-> Strip(raw[i])]
        rest == SubSeq(lines, 2, Len(lines))
        dates == SelectSeq(rest, IsDateLine)
        tagLines == SelectSeq(rest, IsTagsLine)
    IN  [title |-> Strip(Erase(lines[1], Dashes)),
         date_str |-> IF dates = << >> THEN EmptyText
                      ELSE Strip(Erase(dates[Len(dates)], <<"Date:">>)),
         tags |-> IF tagLines = << >> THEN << >>
                  ELSE TagList(Strip(Erase(tagLines[Len(tagLines)], <<"Tags:">>))),
         content |-> Strip(Join(SelectSeq(rest, IsContentLine), <<NL>>))]

(* the row of the INSERT of migrate_from_notes_txt *)
MigratedRow(note, t) ==
    NewRow("note", Some(note.title), note.content,
           JsonDumps(IF note.tags = << >> THEN EmptyDict ELSE [tags |-> PyList(note.tags)]),
           isoformat(IF IsNone(ParseDate(note.date_str)) THEN t
                     ELSE ParseDate(note.date_str)[1]),
           ImportanceDefault, "migrated", NoneVal)

(* the for loop: one INSERT for every note_text that is not blank and has a
   title or content *)
RECURSIVE MigrateLoop(_, _, _)
MigrateLoop(notes, db, t) ==
    IF notes = << >> THEN db
    ELSE IF Strip(Head(notes)) = << >> THEN MigrateLoop(Tail(notes), db, t)
    ELSE LET note == ParseNote(Strip(Head(notes)))
         IN  IF note.content = EmptyText /\ note.title = EmptyText
             THEN MigrateLoop(Tail(notes), db, t)
             ELSE LET r == InsertStmt(db.table, db.fts, db.lastRowId,
                                      MigratedRow(note, DateTime(t, db.lastRowId + 1)))
                  IN  MigrateLoop(Tail(notes),
                                  [table |-> r.table, fts |-> r.fts, lastRowId |-> r.lastRowId,
                                   imported |-> db.imported + 1], t)

(* the text of a file given by its lines *)
FileOf(lines) == Join(lines, <<NL>>)

(* notes.txt in the format the comment of migrate_from_notes_txt gives, and
   a file of blank lines *)
NotesFiles ==
    {FileOf(<<Dashes \o <<SP, "gamma", SP>> \o Dashes, <<"Tags:", SP, "beta">>, <<"alpha">>>>),
     FileOf(<<EmptyText, EmptyText>>)}

(* a file that does not exist returns 0 before anything is read; it is the
   same as the empty text here *)
migrate_from_notes_txt(file) ==
    /\ Idle /\ calls < MaxCalls
    /\ \E r \in {MigrateLoop(Split(file, <<NL>> \o Dashes),
                             [table |-> memories, fts |-> memories_fts,
                              lastRowId |-> lastRowId, imported |-> 0], now)} :
           /\ memories' = r.table
           /\ memories_fts' = r.fts
           /\ lastRowId' = r.lastRowId
           /\ last' = [op |-> "migrate_from_notes_txt", raised |-> FALSE, file |-> file,
                       first |-> lastRowId + 1, ret |-> r.imported]
    /\ inTxn' = FALSE
    /\ calls' = calls + 1
    /\ UNCHANGED <<embeddings, now>>
    /\ ConcUnchanged

(* time passes between calls *)
Tick ==
    /\ Idle /\ now < MaxClock
    /\ now' = now + 1
    /\ UNCHANGED <<memories, embeddings, memories_fts, lastRowId, calls, last, inTxn>>
    /\ ConcUnchanged

----------------------------------------------------------------------------
(* MemoryRetrieval (src/memory/retrieval.py) *)

Dot(a, b) == a[1] * b[1] + a[2] * b[2]

ISqrt(n) == CHOOSE r \in 0..n : r * r <= n /\ (r + 1) * (r + 1) > n

Norm(a) == ISqrt(Dot(a, a))

(* cosine similarity in percent; 0 when either vector has zero norm *)
cosine_similarity(a, b) ==
    IF Norm(a) = 0 \/ Norm(b) = 0 THEN 0
    ELSE (100 * Dot(a, b)) \div (Norm(a) * Norm(b))

Min2(a, b) == IF a <= b THEN a ELSE b
Max2(a, b) == IF a >= b THEN a ELSE b

(* seq[:k] of Python *)
Slice(seq, k) ==
    IF k >= 0 THEN SubSeq(seq, 1, Min2(k, Len(seq)))
    ELSE SubSeq(seq, 1, Max2(Len(seq) + k, 0))

(* list.sort(key=..., reverse=True): stable, descending; key is a function
   on the elements *)
RECURSIVE InsertDesc(_, _, _)
InsertDesc(sorted, x, key) ==
    IF sorted = << >> THEN <<x>>
    ELSE IF key[Head(sorted)] >= key[x]
         THEN <<Head(sorted)>> \o InsertDesc(Tail(sorted), x, key)
         ELSE <<x>> \o sorted

(* SortDesc as a sort that was left out *)
SortDesc_Unsorted(seq, key) == seq

RECURSIVE SortDesc(_, _)
SortDesc(seq, key) ==
    IF seq = << >> THEN << >>
    ELSE InsertDesc(SortDesc(SubSeq(seq, 1, Len(seq) - 1), key), seq[Len(seq)], key)

(* the elements of a finite set of integers in ascending order *)
RECURSIVE Ascending(_)
Ascending(S) ==
    IF S = {} THEN << >>
    ELSE LET m == CHOOSE x \in S : \A y \in S : x <= y
         IN  <<m>> \o Ascending(S \ {m})

FtsSyntaxChars == {"(", "?"}

(* sqlite3.OperationalError: fts5: syntax error *)
FtsSyntaxError(query) == query = EmptyText \/ Tokens(query) \cap FtsSyntaxChars # {}

FtsMatches(f, query) ==
    {p[1] : p \in {q \in f.postings : \A t \in Tokens(query) : <<q[1], t>> \in f.postings}}

(* -rank of FTS5: larger for more query terms and for shorter entries *)
Bm25(f, id, query) ==
    (100 * Cardinality(Tokens(query))) \div (1 + Cardinality({p \in f.postings : p[1] = id}))

KeywordLimit == 20
SemanticLimit == 20

(* _fts_search with an except branch that falls back to every indexed row *)
_fts_search_FallbackAll(f, query, limit) ==
    [i \in {p[1] : p \in f.postings} |-> 0]

_fts_search(f, query, limit) ==
    IF FtsSyntaxError(query) THEN << >>
    ELSE LET ranked == SortDesc(Ascending(FtsMatches(f, query)),
                                [i \in FtsMatches(f, query) |-> Bm25(f, i, query)])
             top == Slice(ranked, limit)
         IN  [i \in {top[k] : k \in 1..Len(top)} |-> Bm25(f, i, query)]

(* _vector_search as a search that embeds each memory's current text *)
_vector_search_FromText(emb, table, query, limit) ==
    LET qv == embed_text(query)
        sim(i) == cosine_similarity(qv, embed_text(EmbeddingText(table[i].title, table[i].content)))
        rows == Ascending(DOMAIN emb \cap DOMAIN table)
        top == Slice(SortDesc(rows, [i \in DOMAIN emb \cap DOMAIN table |-> sim(i)]), limit)
    IN  [i \in {top[k] : k \in 1..Len(top)} |-> sim(i)]

_vector_search(emb, table, query, limit) ==
    LET qv == embed_text(query)
        sim(i) == cosine_similarity(qv, deserialize_embedding(emb[i].embedding))
        rows == Ascending(DOMAIN emb \cap DOMAIN table)
        top == Slice(SortDesc(rows, [i \in DOMAIN emb \cap DOMAIN table |-> sim(i)]), limit)
    IN  [i \in {top[k] : k \in 1..Len(top)} |-> sim(i)]

Get(d, k, default) == IF k \in DOMAIN d THEN d[k] ELSE default

RECURSIVE MergeLoop(_, _, _, _)
MergeLoop(ids, table, kw, sem) ==
    IF ids = << >> THEN << >>
    ELSE LET memory == GetMemory(table, Head(ids))
             rest == MergeLoop(Tail(ids), table, kw, sem)
         IN  IF IsNone(memory) THEN rest
             ELSE <<[memory |-> memory[1],
                     keyword_score |-> Get(kw, Head(ids), 0),
                     semantic_score |-> Get(sem, Head(ids), 0)]>> \o rest

(* _merge_results without the "if not memory: continue" *)
_merge_results_KeepMissing(table, kw, sem) ==
    LET ids == Ascending(DOMAIN kw \cup DOMAIN sem)
    IN  [k \in 1..Len(ids) |->
            [memory |-> IF ids[k] \in DOMAIN table THEN _row_to_memory(ids[k], table[ids[k]])
                        ELSE [id |-> ids[k], timestamp |-> DateTime(0, 0),
                              importance_score |-> ImportanceDefault],
             keyword_score |-> Get(kw, ids[k], 0),
             semantic_score |-> Get(sem, ids[k], 0)]]

(* _merge_results over the two lists of keys, one after the other *)
_merge_results_Concat(table, kw, sem) ==
    MergeLoop(Ascending(DOMAIN kw) \o Ascending(DOMAIN sem), table, kw, sem)

_merge_results(table, kw, sem) ==
    MergeLoop(Ascending(DOMAIN kw \cup DOMAIN sem), table, kw, sem)

DefaultWeights == [keyword_score |-> 30, semantic_score |-> 50, recency |-> 10, importance |-> 10]

(* np.exp(-age_days / 30) in percent, to first order *)
ExpDecay(age_days) == Max2(0, 100 - (100 * age_days) \div 30)

SeqMin(seq) == CHOOSE x \in {seq[i] : i \in 1..Len(seq)} : \A j \in 1..Len(seq) : x <= seq[j]
SeqMax(seq) == CHOOSE x \in {seq[i] : i \in 1..Len(seq)} : \A j \in 1..Len(seq) : x >= seq[j]

(* the keyword score divided by the largest one *)
NormalizedKeyword_ByMax(score, keyword_min, keyword_range) ==
    (100 * score) \div (keyword_min + keyword_range)

(* (candidate.keyword_score - keyword_min) / keyword_range, in percent *)
NormalizedKeyword(score, keyword_min, keyword_range) ==
    IF keyword_range > 0 THEN (100 * (score - keyword_min)) \div keyword_range ELSE 0

_rerank(cands, weights, t) ==
    IF cands = << >> THEN << >>
    ELSE LET ks == [i \in 1..Len(cands) |-> cands[i].keyword_score]
             keyword_min == SeqMin(ks)
             keyword_max == SeqMax(ks)
             keyword_range == IF keyword_max # keyword_min THEN keyword_max - keyword_min ELSE 1
             scored(c) ==
                 LET k == NormalizedKeyword(c.keyword_score, keyword_min, keyword_range)
                     r == ExpDecay(t - c.memory.timestamp.day)
                     imp == c.memory.importance_score
                 IN  [memory |-> c.memory, keyword_score |-> k,
                      semantic_score |-> c.semantic_score,
                      recency_score |-> r, importance_score |-> imp,
                      final_score |-> Get(weights, "keyword_score", 30) * k
                                      + Get(weights, "semantic_score", 50) * c.semantic_score
                                      + Get(weights, "recency", 10) * r
                                      + Get(weights, "importance", 10) * imp]
             out == [i \in 1..Len(cands) |-> scored(cands[i])]
         IN  SortDesc(out, [c \in {out[i] : i \in 1..Len(out)} |-> c.final_score])

SimilarityThreshold == 95

(* DiversifyLoop without the "if len(diverse) >= top_k: break" *)
RECURSIVE DiversifyLoop_NoStop(_, _, _, _)
DiversifyLoop_NoStop(results, diverse, top_k, emap) ==
    IF results = << >> THEN diverse
    ELSE LET result == Head(results)
             id == result.memory.id
             is_redundant ==
                 /\ id \in DOMAIN emap
                 /\ \E k \in 1..Len(diverse) :
                        /\ diverse[k].memory.id \in DOMAIN emap
                        /\ cosine_similarity(emap[id], emap[diverse[k].memory.id]) > 95
         IN  DiversifyLoop_NoStop(Tail(results),
                                  IF is_redundant THEN diverse ELSE Append(diverse, result),
                                  top_k, emap)

(* DiversifyLoop treating a candidate without an embedding as redundant once
   something has been admitted *)
RECURSIVE DiversifyLoop_NoneIsRedundant(_, _, _, _)
DiversifyLoop_NoneIsRedundant(results, diverse, top_k, emap) ==
    IF results = << >> \/ Len(diverse) >= top_k THEN diverse
    ELSE LET result == Head(results)
             id == result.memory.id
             is_redundant ==
                 \/ id \notin DOMAIN emap /\ diverse # << >>
                 \/ /\ id \in DOMAIN emap
                    /\ \E k \in 1..Len(diverse) :
                           /\ diverse[k].memory.id \in DOMAIN emap
                           /\ cosine_similarity(emap[id], emap[diverse[k].memory.id])
                                  > SimilarityThreshold
         IN  DiversifyLoop_NoneIsRedundant(Tail(results),
                 IF is_redundant THEN diverse ELSE Append(diverse, result),
                 top_k, emap)

RECURSIVE DiversifyLoop(_, _, _, _)
DiversifyLoop(results, diverse, top_k, emap) ==
    IF results = << >> \/ Len(diverse) >= top_k THEN diverse
    ELSE LET result == Head(results)
             id == result.memory.id
             is_redundant ==
                 /\ id \in DOMAIN emap
                 /\ \E k \in 1..Len(diverse) :
                        /\ diverse[k].memory.id \in DOMAIN emap
                        /\ cosine_similarity(emap[id], emap[diverse[k].memory.id])
                               > SimilarityThreshold
         IN  DiversifyLoop(Tail(results),
                           IF is_redundant THEN diverse ELSE Append(diverse, result),
                           top_k, emap)

(* _diversify_results with an embeddings_map that was never filled *)
_diversify_results_NoMap(results, top_k, emb) ==
    DiversifyLoop(results, << >>, top_k, << >>)

_diversify_results(results, top_k, emb) ==
    IF results = << >> THEN << >>
    ELSE LET ids == {results[i].memory.id : i \in 1..Len(results)} \cap DOMAIN emb
             emap == [i \in ids |-> deserialize_embedding(emb[i].embedding)]
         IN  DiversifyLoop(results, << >>, top_k, emap)

(* hybrid_search up to the merge: the candidates with their raw scores *)
Candidates(table, f, emb, query) ==
    _merge_results(table, _fts_search(f, query, KeywordLimit),
                   _vector_search(emb, table, query, SemanticLimit))

(* hybrid_search up to the reranking: the SearchResult list, best first *)
Ranked(table, f, emb, t, query, weights) ==
    LET w == IF IsNone(weights) THEN DefaultWeights ELSE weights[1]
    IN  _rerank(Candidates(table, f, emb, query), w, t)

(* diverse[:top_k] *)
Diverse(ranked, emb, top_k) == Slice(_diversify_results(ranked, top_k, emb), top_k)

HybridSearch(table, f, emb, t, query, top_k, weights) ==
    LET top == Diverse(Ranked(table, f, emb, t, query, weights), emb, top_k)
    IN  [i \in 1..Len(top) |-> top[i].memory]

Queries == {<<"alpha">>, <<"delta">>, <<"(">>}
TopKs == {0, 1}
WeightInputs == {NoneVal, Some([keyword_score |-> 100])}

hybrid_search(query, top_k, weights) ==
    /\ Idle
    /\ \E keyword_results \in {_fts_search(memories_fts, query, KeywordLimit)} :
       \E semantic_results \in {_vector_search(embeddings, memories, query, SemanticLimit)} :
       \E candidates \in {_merge_results(memories, keyword_results, semantic_results)} :
       \E ranked \in {_rerank(candidates,
                              IF IsNone(weights) THEN DefaultWeights ELSE weights[1], now)} :
       \E top \in {Diverse(ranked, embeddings, top_k)} :
           last' = [op |-> "hybrid_search", raised |-> FALSE, query |-> query,
                    top_k |-> top_k, weights |-> weights, ranked |-> ranked,
                    keyword_results |-> keyword_results,
                    semantic_results |-> semantic_results,
                    candidates |-> candidates,
                    ret |-> [i \in 1..Len(top) |-> top[i].memory]]
    /\ UNCHANGED <<memories, embeddings, memories_fts, lastRowId, now, calls, inTxn>>
    /\ ConcUnchanged

fts_search(query) ==
    /\ Idle
    /\ last' = [op |-> "_fts_search", raised |-> FALSE, query |-> query,
                ret |-> DOMAIN _fts_search(memories_fts, query, KeywordLimit)]
    /\ UNCHANGED <<memories, embeddings, memories_fts, lastRowId, now, calls, inTxn>>
    /\ ConcUnchanged

(* self.db.add_memory(...) stores and commits the row; then the embedding is
   made and its row inserted.  embedder_ok = FALSE: embed_text raises (the
   model cannot be loaded or run); nothing in the method catches it. *)
add_memory_with_embedding(content, memory_type, title, metadata, source_type, source_id, embedder_ok) ==
    /\ Idle /\ calls < MaxCalls
    /\ LET r == InsertStmt(memories, memories_fts, lastRowId,
                           AddRow(content, memory_type, title, metadata, source_type,
                                  source_id, ImportanceDefault))
       IN  /\ memories' = r.table
           /\ memories_fts' = r.fts
           /\ lastRowId' = r.lastRowId
           /\ embeddings' = IF embedder_ok
                            THEN Put(embeddings, r.lastRowId, EmbeddingRow(title, content))
                            ELSE embeddings
           /\ last' = [op |-> "add_memory_with_embedding", raised |-> ~embedder_ok,
                       id |-> r.lastRowId, embedder_ok |-> embedder_ok]
    /\ inTxn' = FALSE
    /\ calls' = calls + 1
    /\ UNCHANGED now
    /\ ConcUnchanged

(* every memory of get_all_memories gets DELETE + INSERT of its embedding
   row; rows of other memory_ids are not touched *)
RebuiltEmbeddings(emb, table) ==
    [i \in DOMAIN emb \cup DOMAIN table |->
        IF i \in DOMAIN table THEN EmbeddingRow(table[i].title, table[i].content)
        ELSE emb[i]]

rebuild_embeddings ==
    /\ Idle /\ calls < MaxCalls
    /\ embeddings' = RebuiltEmbeddings(embeddings, memories)
    /\ last' = [op |-> "rebuild_embeddings", raised |-> FALSE]
    /\ inTxn' = FALSE
    /\ calls' = calls + 1
    /\ UNCHANGED <<memories, memories_fts, lastRowId, now>>
    /\ ConcUnchanged

Next ==
    \/ \E c \in Contents, t \in Titles, imp \in ImportanceInputs :
           add_memory(c, "note", t, NoneVal, "manual", NoneVal, imp)
    \/ \E c \in Contents, t \in Titles, ok \in BOOLEAN :
           add_memory_with_embedding(c, "note", t, NoneVal, "manual", NoneVal, ok)
    \/ \E id \in Ids : get_memory(id)
    \/ \E id \in Ids, a \in UpdateArgs : update_memory(id, a)
    \/ \E id \in Ids : delete_memory(id)
    \/ \E id \in Ids : update_access_stats(id)
    \/ \E notes \in NotesFiles : migrate_from_notes_txt(notes)
    \/ rebuild_embeddings
    \/ \E q \in Queries, k \in TopKs : hybrid_search(q, k, NoneVal)
    \/ \E q \in Queries : fts_search(q)
    \/ Tick

Spec == Init /\ [][Next]_vars

----------------------------------------------------------------------------
(* Searches over stores of up to three memories, with and without embeddings *)

SearchContents == Contents \cup {<<"beta">>}
SearchQueries == {<<"alpha">>, <<"beta">>, <<"(">>}
SearchTopKs == {-1, 0, 2}
SearchWeights ==
    WeightInputs \cup
        {Some([keyword_score |-> 0, semantic_score |-> 0, recency |-> 0, importance |-> 100])}

NextSearch ==
    \/ \E c \in SearchContents :
           add_memory_with_embedding(c, "note", NoneVal, NoneVal, "manual", NoneVal, TRUE)
    \/ \E c \in SearchContents :
           add_memory(c, "note", NoneVal, NoneVal, "manual", NoneVal, 100)
    \/ \E id \in Ids : delete_memory(id)
    \/ \E q \in SearchQueries, k \in SearchTopKs, w \in SearchWeights : hybrid_search(q, k, w)
    \/ Tick

SpecSearch == Init /\ [][NextSearch]_vars

----------------------------------------------------------------------------
(* add_memory with every parameter supplied, and get_memory *)

(* where a memory comes from: memory_type, source_type, source_id *)
Origins ==
    {[memory_type |-> "note", source_type |-> "manual", source_id |-> NoneVal],
     [memory_type |-> "fact", source_type |-> "voice", source_id |-> Some("log1")]}

AddInputs ==
    {[content |-> c, memory_type |-> o.memory_type, title |-> t, metadata |-> md,
      source_type |-> o.source_type, source_id |-> o.source_id, importance_score |-> imp] :
        c \in Contents, o \in Origins, t \in Titles,
        md \in {NoneVal, Some(EmptyDict), Some(TagsDict), Some(TupleDict)},
        imp \in {ImportanceDefault, 25}}

NextStore ==
    \/ \E m \in AddInputs :
           add_memory(m.content, m.memory_type, m.title, m.metadata, m.source_type,
                      m.source_id, m.importance_score)
    \/ \E id \in Ids : get_memory(id)

SpecStore == Init /\ [][NextStore]_vars

(* The importer alone, on every file of at most MaxLines lines drawn from
   LineShapes, into an empty store and into the seeded one *)
MaxLines == 4

LineShapes ==
    {EmptyText,
     Dashes,
     Dashes \o <<SP, "gamma", SP>> \o Dashes,
     Dashes \o <<"-">>,
     Dashes \o <<"delta">>,
     <<"alpha">>,
     <<SP, "beta", SP>>,
     <<"Date:", SP, "2024-03-01">>,
     <<"Tags:", SP, "alpha", ",", SP, ",", "beta">>}

ImportFiles ==
    {FileOf(lines) : lines \in UNION {[1..n -> LineShapes] : n \in 0..MaxLines}}

InitImport == (InitEmpty \/ InitSeeded) /\ InitRunAt(MaxCalls - 1)

(* one import per run: the files are enumerated only while a call is left *)
NextImport ==
    /\ calls < MaxCalls
    /\ \E file \in ImportFiles : migrate_from_notes_txt(file)

SpecImport == InitImport /\ [][NextImport]_vars

----------------------------------------------------------------------------
(* SessionConsolidator. What the language model gives is an input: whether
   the call and json.loads succeeded, and the decoded JSON array, each
   element an object that may lack a key, or a value that is no object. *)

JsonObject(fields) == [json |-> "object", fields |-> fields]

JsonString == [json |-> "string"]

RawInsight(keys, category) ==
    JsonObject([k \in keys |-> IF k = "type" THEN category
                               ELSE IF k = "title" THEN <<"gamma">> ELSE <<"alpha">>])

RawInsights ==
    {RawInsight({"title", "content", "type"}, c) : c \in {"fact", "preference", "topic"}}
        \cup {RawInsight({"title", "content"}, ""),
              RawInsight({"content", "type"}, "fact"),
              RawInsight({"title", "type"}, "fact"),
              JsonString}

(* isinstance(insight, dict) and 'title' in insight and 'content' in insight *)
IsValidInsight(insight) ==
    /\ insight.json = "object"
    /\ "title" \in DOMAIN insight.fields
    /\ "content" \in DOMAIN insight.fields

(* ValidInsights as a validation that rejects the batch when an element is
   invalid *)
ValidInsights_AllOrNothing(answer) ==
    IF \A i \in 1..Len(answer) : IsValidInsight(answer[i])
    THEN [i \in 1..Len(answer) |->
             [title |-> answer[i].fields.title, content |-> answer[i].fields.content,
              type |-> IF "type" \in DOMAIN answer[i].fields
                       THEN answer[i].fields.type ELSE "fact"]]
    ELSE << >>

(* _extract_insights, the validation of the answer: an element with a
   title and content is kept, its type 'fact' when it has none *)
ValidInsights(answer) ==
    LET kept == SelectSeq(answer, IsValidInsight)
    IN  [i \in 1..Len(kept) |->
            [title |-> kept[i].fields.title, content |-> kept[i].fields.content,
             type |-> IF "type" \in DOMAIN kept[i].fields THEN kept[i].fields.type
                      ELSE "fact"]]

(* the answer when the call to the language model or json.loads raised *)
Unparseable == [parsed |-> FALSE, array |-> << >>]

Parsed(array) == [parsed |-> TRUE, array |-> array]

(* _extract_insights: any exception is caught and gives no insight *)
_extract_insights(response) ==
    IF response.parsed THEN ValidInsights(response.array) ELSE << >>

(* memory_type_map with every type stored as an insight *)
memory_type_map_AllInsight(category) == "insight"

(* memory_type_map.get(insight['type'], 'insight') *)
memory_type_map(category) == IF category = "fact" THEN "fact" ELSE "insight"

(* the for loop of _save_insights: add_memory_with_embedding for each
   insight; when the embedder raises, the memory row is already committed
   and the insight is not counted *)
RECURSIVE SaveLoop(_, _, _, _)
SaveLoop(insights, source_id, embedder_ok, db) ==
    IF insights = << >> THEN db
    ELSE LET insight == Head(insights)
             r == InsertStmt(db.table, db.fts, db.lastRowId,
                             AddRow(insight.content, memory_type_map(insight.type),
                                    Some(insight.title), NoneVal, "consolidated",
                                    Some(source_id), ImportanceDefault))
         IN  SaveLoop(Tail(insights), source_id, embedder_ok,
                      [table |-> r.table, fts |-> r.fts, lastRowId |-> r.lastRowId,
                       embeddings |-> IF embedder_ok
                                      THEN Put(db.embeddings, r.lastRowId,
                                               EmbeddingRow(Some(insight.title), insight.content))
                                      ELSE db.embeddings,
                       count |-> db.count + IF embedder_ok THEN 1 ELSE 0])

_save_insights(insights, source_id, embedder_ok) ==
    SaveLoop(insights, source_id, embedder_ok,
             [table |-> memories, fts |-> memories_fts, lastRowId |-> lastRowId,
              embeddings |-> embeddings, count |-> 0])

(* consolidate_session on a log that exists and parses; name is
   session_path.name, response what the language model gave. With no
   insight it returns 0 before _save_insights, which then stores nothing. *)
consolidate_session(name, response, embedder_ok) ==
    /\ Idle /\ calls < MaxCalls
    /\ \E insights \in {_extract_insights(response)} :
       \E r \in {_save_insights(insights, name, embedder_ok)} :
           /\ memories' = r.table
           /\ memories_fts' = r.fts
           /\ lastRowId' = r.lastRowId
           /\ embeddings' = r.embeddings
           /\ last' = [op |-> "consolidate_session", raised |-> FALSE, name |-> name,
                       response |-> response, insights |-> insights,
                       embedder_ok |-> embedder_ok,
                       first |-> lastRowId + 1, ret |-> r.count]
    /\ inTxn' = FALSE
    /\ calls' = calls + 1
    /\ UNCHANGED now
    /\ ConcUnchanged

MaxInsights == 2

Answers ==
    {Unparseable} \cup {Parsed(array) : array \in UNION {[1..n -> RawInsights] : n \in 0..MaxInsights}}

SessionLogs == {"session_1.txt", "session_2.txt"}

NextConsolidate ==
    \/ \E name \in SessionLogs, response \in Answers, ok \in BOOLEAN :
           consolidate_session(name, response, ok)
    \/ \E c \in Contents :
           add_memory_with_embedding(c, "note", NoneVal, NoneVal, "manual", NoneVal, TRUE)

SpecConsolidate == Init /\ [][NextConsolidate]_vars

----------------------------------------------------------------------------
(* Listings of the store (src/memory/storage.py) *)

(* ORDER BY timestamp DESC: the texts are compared as strings; rows with
   the same text come in the order of the table scan, by rowid *)
RECURSIVE OrderByTimestampDesc(_, _)
OrderByTimestampDesc(table, ids) ==
    IF ids = {} THEN << >>
    ELSE LET top == CHOOSE i \in ids :
                        \A j \in ids \ {i} :
                            \/ TextLess(table[j].timestamp, table[i].timestamp)
                            \/ table[j].timestamp = table[i].timestamp /\ i < j
         IN  <<top>> \o OrderByTimestampDesc(table, ids \ {top})

(* LIMIT ?: a negative limit is no limit *)
Limit(seq, n) == IF n < 0 \/ n >= Len(seq) THEN seq ELSE SubSeq(seq, 1, n)

RowsToMemories(table, ids) == [k \in 1..Len(ids) |-> _row_to_memory(ids[k], table[ids[k]])]

(* "if limit:" is false for None and for 0 *)
GetAllMemories(table, limit) ==
    LET ids == OrderByTimestampDesc(table, DOMAIN table)
    IN  RowsToMemories(table, IF IsNone(limit) \/ limit = Some(0) THEN ids
                              ELSE Limit(ids, limit[1]))

SearchBySourceType(table, source_type) ==
    RowsToMemories(table,
        OrderByTimestampDesc(table, {i \in DOMAIN table : table[i].source_type = source_type}))

get_all_memories(limit) ==
    /\ Idle
    /\ last' = [op |-> "get_all_memories", raised |-> FALSE, limit |-> limit,
                ret |-> GetAllMemories(memories, limit)]
    /\ UNCHANGED <<memories, embeddings, memories_fts, lastRowId, now, calls, inTxn>>
    /\ ConcUnchanged

search_by_source_type(source_type) ==
    /\ Idle
    /\ last' = [op |-> "search_by_source_type", raised |-> FALSE, source_type |-> source_type,
                ret |-> SearchBySourceType(memories, source_type)]
    /\ UNCHANGED <<memories, embeddings, memories_fts, lastRowId, now, calls, inTxn>>
    /\ ConcUnchanged

(* notes with a date of today, with an old date, and without a date *)
ListFiles ==
    {FileOf(<<<<"gamma">>, <<"Date:", SP, "2024-03-31">>, <<"alpha">>>>),
     FileOf(<<<<"gamma">>, <<"Date:", SP, "2024-03-01">>, <<"alpha">>>>),
     FileOf(<<<<"gamma">>, <<"beta">>, Dashes, <<"delta">>>>)}

ListLimits == {NoneVal, Some(0), Some(1), Some(-1)}

NextList ==
    \/ \E c \in Contents : add_memory(c, "note", NoneVal, NoneVal, "manual", NoneVal,
                                      ImportanceDefault)
    \/ \E file \in ListFiles : migrate_from_notes_txt(file)
    \/ \E limit \in ListLimits : get_all_memories(limit)
    \/ \E source_type \in {"manual", "migrated"} : search_by_source_type(source_type)
    \/ Tick

SpecList == Init /\ [][NextList]_vars

----------------------------------------------------------------------------
(* EmbeddingService with its cache (src/memory/embeddings.py) *)

(* hashlib.md5(text.encode('utf-8')).hexdigest(): the digest stands for
   the text it was made of; two texts with one digest are left out *)
_get_cache_key(text) == [md5 |-> text]

(* not text or not text.strip() *)
IsBlank(text) == Strip(text) = EmptyText

(* embed_text(text) on a service whose cache is cache: what it returns and
   the cache it leaves *)
EmbedText(cache, text) ==
    IF IsBlank(text) THEN [ret |-> Zero, cache |-> cache]
    ELSE IF _get_cache_key(text) \in DOMAIN cache
    THEN [ret |-> cache[_get_cache_key(text)], cache |-> cache]
    ELSE [ret |-> ModelEncode(text),
          cache |-> Put(cache, _get_cache_key(text), ModelEncode(text))]

(* embed_batch, first loop: the slot of a text is its vector when the text
   is blank or cached, and None when the text has to be encoded *)
BatchSlot(cache, text) ==
    IF IsBlank(text) THEN Some(Zero)
    ELSE IF _get_cache_key(text) \in DOMAIN cache THEN Some(cache[_get_cache_key(text)])
    ELSE NoneVal

(* indices_to_embed: the positions of the slots still None, in order *)
RECURSIVE IndicesFrom(_, _)
IndicesFrom(slots, i) ==
    IF i > Len(slots) THEN << >>
    ELSE IF IsNone(slots[i]) THEN <<i>> \o IndicesFrom(slots, i + 1)
    ELSE IndicesFrom(slots, i + 1)

(* self._model.encode(texts_to_embed): one vector per text, in order *)
EncodeBatch(texts, indices) == [j \in 1..Len(indices) |-> ModelEncode(texts[indices[j]])]

(* Scatter as a loop that puts the j-th encoded vector at position j *)
Scatter_Packed(slots, indices, batch_embeddings) ==
    [i \in 1..Len(slots) |->
        IF i <= Len(batch_embeddings) THEN batch_embeddings[i]
        ELSE IF IsNone(slots[i]) THEN Zero ELSE slots[i][1]]

(* embeddings[idx] = embedding for idx, embedding in zip(indices_to_embed,
   batch_embeddings); the other positions keep the vector of the first loop *)
Scatter(slots, indices, batch_embeddings) ==
    [i \in 1..Len(slots) |->
        IF IsNone(slots[i])
        THEN batch_embeddings[CHOOSE j \in 1..Len(indices) : indices[j] = i]
        ELSE slots[i][1]]

(* StoreKey as the key of the j-th text of the batch *)
StoreKey_Packed(texts, indices, j) == _get_cache_key(texts[j])

(* cache_key = self._get_cache_key(texts[idx]) for the j-th encoded text *)
StoreKey(texts, indices, j) == _get_cache_key(texts[indices[j]])

(* self._cache[cache_key] = embedding, for the encoded texts in order *)
RECURSIVE CacheBatch(_, _, _, _, _)
CacheBatch(cache, texts, indices, batch_embeddings, j) ==
    IF j > Len(indices) THEN cache
    ELSE CacheBatch(Put(cache, StoreKey(texts, indices, j), batch_embeddings[j]),
                    texts, indices, batch_embeddings, j + 1)

(* embed_batch(texts) on a service whose cache is cache *)
EmbedBatch(cache, texts) ==
    LET slots == [i \in 1..Len(texts) |-> BatchSlot(cache, texts[i])]
        indices == IndicesFrom(slots, 1)
        batch_embeddings == EncodeBatch(texts, indices)
    IN  [ret |-> Scatter(slots, indices, batch_embeddings),
         cache |-> CacheBatch(cache, texts, indices, batch_embeddings, 1)]

(* the texts given to the service: empty, blank, and three with words *)
ServiceTexts == {EmptyText, <<SP>>, <<"alpha">>, <<"delta", SP, "beta">>, <<"beta">>}

MaxBatch == 3

Batches == UNION {[1..n -> ServiceTexts] : n \in 0..MaxBatch}

EmbedIdle == \A t \in Threads : ethr[t].pc = "idle"

StoreUnchanged ==
    /\ UNCHANGED <<memories, embeddings, memories_fts, lastRowId, now, calls, thr, inTxn,
                   accDone, accRaised>>
    /\ SessionUnchanged /\ AppUnchanged /\ AgentUnchanged

S_embed_text(text) ==
    /\ EmbedIdle
    /\ \E r \in {EmbedText(_cache, text)} :
           /\ _cache' = r.cache
           /\ last' = [op |-> "embed_text", raised |-> FALSE, texts |-> <<text>>,
                       before |-> _cache, ret |-> <<r.ret>>]
    /\ StoreUnchanged
    /\ UNCHANGED ethr

S_embed_batch(texts) ==
    /\ EmbedIdle
    /\ \E r \in {EmbedBatch(_cache, texts)} :
           /\ _cache' = r.cache
           /\ last' = [op |-> "embed_batch", raised |-> FALSE, texts |-> texts,
                       before |-> _cache, ret |-> r.ret]
    /\ StoreUnchanged
    /\ UNCHANGED ethr

(* self._cache.clear() *)
clear_cache ==
    /\ EmbedIdle
    /\ _cache' = << >>
    /\ last' = [op |-> "clear_cache", raised |-> FALSE, texts |-> << >>,
                before |-> _cache, ret |-> << >>]
    /\ StoreUnchanged
    /\ UNCHANGED ethr

NextEmbed ==
    \/ \E text \in ServiceTexts : S_embed_text(text)
    \/ \E texts \in Batches : S_embed_batch(texts)
    \/ clear_cache

SpecEmbed == Init /\ [][NextEmbed]_vars

(* Several threads call the one EmbeddingService. A thread can be switched
   between any two steps below; the dictionary operations themselves are
   atomic. No call removes a cache entry, so a key that was found is still
   there when it is read. *)

EReturn(t, op, texts, ret) ==
    /\ ethr' = [ethr EXCEPT ![t] = [pc |-> "idle"]]
    /\ last' = [op |-> op, raised |-> FALSE, texts |-> texts, before |-> << >>, ret |-> ret]

EGoto(t, state) ==
    /\ ethr' = [ethr EXCEPT ![t] = state]
    /\ UNCHANGED last

EUnchanged ==
    /\ UNCHANGED <<memories, embeddings, memories_fts, lastRowId, now, thr, inTxn,
                   accDone, accRaised>>
    /\ SessionUnchanged /\ AppUnchanged /\ AgentUnchanged

(* embed_text: the test for a blank text *)
E_embed_text(t, text) ==
    /\ ethr[t].pc = "idle" /\ calls < MaxCalls
    /\ IF IsBlank(text)
       THEN EReturn(t, "embed_text", <<text>>, <<Zero>>)
       ELSE EGoto(t, [pc |-> "check", text |-> text])
    /\ calls' = calls + 1
    /\ UNCHANGED _cache
    /\ EUnchanged

(* if cache_key in self._cache: return self._cache[cache_key] *)
E_check(t) ==
    /\ ethr[t].pc = "check"
    /\ IF _get_cache_key(ethr[t].text) \in DOMAIN _cache
       THEN EReturn(t, "embed_text", <<ethr[t].text>>, <<_cache[_get_cache_key(ethr[t].text)]>>)
       ELSE EGoto(t, [pc |-> "encode", text |-> ethr[t].text])
    /\ UNCHANGED <<_cache, calls>>
    /\ EUnchanged

(* embedding = self._model.encode(text) *)
E_encode(t) ==
    /\ ethr[t].pc = "encode"
    /\ EGoto(t, [pc |-> "store", text |-> ethr[t].text, embedding |-> ModelEncode(ethr[t].text)])
    /\ UNCHANGED <<_cache, calls>>
    /\ EUnchanged

(* self._cache[cache_key] = embedding; return embedding *)
E_store(t) ==
    /\ ethr[t].pc = "store"
    /\ _cache' = Put(_cache, _get_cache_key(ethr[t].text), ethr[t].embedding)
    /\ EReturn(t, "embed_text", <<ethr[t].text>>, <<ethr[t].embedding>>)
    /\ UNCHANGED calls
    /\ EUnchanged

(* embed_batch: if not texts: return [] *)
B_embed_batch(t, texts) ==
    /\ ethr[t].pc = "idle" /\ calls < MaxCalls
    /\ IF texts = << >>
       THEN EReturn(t, "embed_batch", texts, << >>)
       ELSE EGoto(t, [pc |-> "b_check", texts |-> texts, slots |-> << >>])
    /\ calls' = calls + 1
    /\ UNCHANGED _cache
    /\ EUnchanged

(* one turn of the first loop; after the last turn, "if texts_to_embed" *)
B_check(t) ==
    /\ ethr[t].pc = "b_check"
    /\ LET texts == ethr[t].texts
           slots == Append(ethr[t].slots, BatchSlot(_cache, texts[Len(ethr[t].slots) + 1]))
       IN  IF Len(slots) < Len(texts)
           THEN EGoto(t, [pc |-> "b_check", texts |-> texts, slots |-> slots])
           ELSE IF IndicesFrom(slots, 1) = << >>
           THEN EReturn(t, "embed_batch", texts, [i \in 1..Len(slots) |-> slots[i][1]])
           ELSE EGoto(t, [pc |-> "b_encode", texts |-> texts, slots |-> slots])
    /\ UNCHANGED <<_cache, calls>>
    /\ EUnchanged

(* batch_embeddings = self._model.encode(texts_to_embed) *)
B_encode(t) ==
    /\ ethr[t].pc = "b_encode"
    /\ EGoto(t, [pc |-> "b_store", texts |-> ethr[t].texts, slots |-> ethr[t].slots,
                 indices |-> IndicesFrom(ethr[t].slots, 1),
                 batch_embeddings |-> EncodeBatch(ethr[t].texts, IndicesFrom(ethr[t].slots, 1)),
                 j |-> 1])
    /\ UNCHANGED <<_cache, calls>>
    /\ EUnchanged

(* one turn of the second loop; after the last turn, return embeddings *)
B_store(t) ==
    /\ ethr[t].pc = "b_store"
    /\ LET e == ethr[t]
       IN  /\ _cache' = Put(_cache, StoreKey(e.texts, e.indices, e.j), e.batch_embeddings[e.j])
           /\ IF e.j < Len(e.indices)
              THEN EGoto(t, [e EXCEPT !.j = e.j + 1])
              ELSE EReturn(t, "embed_batch", e.texts,
                           Scatter(e.slots, e.indices, e.batch_embeddings))
    /\ UNCHANGED calls
    /\ EUnchanged

MaxConcBatch == 2

ConcTexts == {<<SP>>, <<"alpha">>, <<"beta">>}

ConcBatches == UNION {[1..n -> ConcTexts] : n \in 0..MaxConcBatch}

NextEmbedConc ==
    \/ \E t \in Threads, text \in ConcTexts : E_embed_text(t, text)
    \/ \E t \in Threads : E_check(t)
    \/ \E t \in Threads : E_encode(t)
    \/ \E t \in Threads : E_store(t)
    \/ \E t \in Threads, texts \in ConcBatches : B_embed_batch(t, texts)
    \/ \E t \in Threads : B_check(t)
    \/ \E t \in Threads : B_encode(t)
    \/ \E t \in Threads : B_store(t)

SpecEmbedConc == Init /\ [][NextEmbedConc]_vars

----------------------------------------------------------------------------
(* Several threads on the one shared connection (check_same_thread=False).
   SQLite runs each statement, with its triggers, under the connection's
   mutex, so a statement is one step; what a statement has written is seen
   by the next statement of any thread, committed or not.  The sqlite3
   module opens a transaction before an INSERT, UPDATE or DELETE when the
   connection has none open, and conn.commit() issues COMMIT when it has one:
   the test and the BEGIN, and the test and the COMMIT, are separate steps,
   so that another thread can come between them, and then the BEGIN or the
   COMMIT raises sqlite3.OperationalError. *)

InitConc == InitSeeded /\ InitRun

Return(t, result) ==
    /\ thr' = [thr EXCEPT ![t] = [pc |-> "idle"]]
    /\ last' = result

Goto(t, state) ==
    /\ thr' = [thr EXCEPT ![t] = state]
    /\ UNCHANGED last

Raised(result) == [result EXCEPT !.raised = TRUE]

(* "cannot start a transaction within a transaction" *)
BeginRaises(t) == thr[t].begin /\ inTxn

(* "cannot commit - no transaction is active" *)
CommitRaises(t) == thr[t].commit /\ ~inTxn

(* the statement has run, conn.commit() comes next *)
ToCommit(t, result, rowcount) ==
    Goto(t, [pc |-> "commit", op |-> result.op, id |-> result.id, result |-> result,
             rowcount |-> rowcount, commit |-> FALSE])

(* update_access_stats calls on id that returned, and that raised *)
CountAccess(op, id, raised, rowcount) ==
    IF op # "update_access_stats"
    THEN UNCHANGED <<accDone, accRaised>>
    ELSE IF raised
    THEN accRaised' = [accRaised EXCEPT ![id] = @ + 1] /\ UNCHANGED accDone
    ELSE accDone' = [accDone EXCEPT ![id] = @ + rowcount] /\ UNCHANGED accRaised

T_add_memory(t, content, title) ==
    /\ thr[t].pc = "idle" /\ calls < MaxCalls
    /\ Goto(t, [pc |-> "begin", op |-> "add_memory", content |-> content, title |-> title,
                begin |-> FALSE])
    /\ calls' = calls + 1
    /\ UNCHANGED <<memories, embeddings, memories_fts, lastRowId, now, inTxn, accDone, accRaised>>
    /\ ServiceUnchanged

(* memory = self.get_memory(memory_id) and the two early returns *)
T_update_memory(t, id, a) ==
    /\ thr[t].pc = "idle" /\ calls < MaxCalls
    /\ IF IsNone(GetMemory(memories, id))
       THEN Return(t, [op |-> "update_memory", raised |-> FALSE, id |-> id, args |-> a, ret |-> FALSE])
       ELSE IF NoUpdates(a)
       THEN Return(t, [op |-> "update_memory", raised |-> FALSE, id |-> id, args |-> a, ret |-> TRUE])
       ELSE Goto(t, [pc |-> "begin", op |-> "update_memory", id |-> id, args |-> a,
                     begin |-> FALSE])
    /\ calls' = calls + 1
    /\ UNCHANGED <<memories, embeddings, memories_fts, lastRowId, now, inTxn, accDone, accRaised>>
    /\ ServiceUnchanged

T_delete_memory(t, id) ==
    /\ thr[t].pc = "idle" /\ calls < MaxCalls
    /\ Goto(t, [pc |-> "begin", op |-> "delete_memory", id |-> id, begin |-> FALSE])
    /\ calls' = calls + 1
    /\ UNCHANGED <<memories, embeddings, memories_fts, lastRowId, now, inTxn, accDone, accRaised>>
    /\ ServiceUnchanged

(* cursor = self.conn.cursor() *)
T_update_access_stats(t, id) ==
    /\ thr[t].pc = "idle" /\ calls < MaxCalls
    /\ Goto(t, [pc |-> "begin", op |-> "update_access_stats", id |-> id,
                seen |-> CountOf(memories, id), begin |-> FALSE])
    /\ calls' = calls + 1
    /\ UNCHANGED <<memories, embeddings, memories_fts, lastRowId, now, inTxn, accDone, accRaised>>
    /\ ServiceUnchanged

(* cursor.execute of a DML statement, first half: is a transaction open? *)
T_begin(t) ==
    /\ thr[t].pc = "begin"
    /\ Goto(t, [thr[t] EXCEPT !.pc = "execute", !.begin = ~inTxn])
    /\ UNCHANGED <<memories, embeddings, memories_fts, lastRowId, now, calls, inTxn,
                   accDone, accRaised>>
    /\ ServiceUnchanged

T_add_execute(t) ==
    /\ thr[t].pc = "execute" /\ thr[t].op = "add_memory"
    /\ IF BeginRaises(t)
       THEN /\ Return(t, [op |-> "add_memory", raised |-> TRUE, id |-> 0])
            /\ UNCHANGED <<memories, memories_fts, lastRowId, inTxn>>
       ELSE LET r == InsertStmt(memories, memories_fts, lastRowId,
                                AddRow(thr[t].content, "note", thr[t].title, NoneVal,
                                       "manual", NoneVal, ImportanceDefault))
            IN  /\ memories' = r.table
                /\ memories_fts' = r.fts
                /\ lastRowId' = r.lastRowId
                /\ inTxn' = (thr[t].begin \/ inTxn)
                /\ ToCommit(t, [op |-> "add_memory", raised |-> FALSE, id |-> r.lastRowId], 1)
    /\ UNCHANGED <<embeddings, now, calls, accDone, accRaised>>
    /\ ServiceUnchanged

(* cursor.execute(query, params): the row may be gone by now, and then the
   UPDATE changes no row *)
T_update_execute(t) ==
    /\ thr[t].pc = "execute" /\ thr[t].op = "update_memory"
    /\ LET id == thr[t].id
           a == thr[t].args
           r == UpdateStmt(memories, memories_fts, id,
                           IF id \in DOMAIN memories THEN UpdatedRow(memories[id], a) ELSE << >>)
           result == [op |-> "update_memory", raised |-> FALSE, id |-> id, args |-> a,
                      ret |-> TRUE]
       IN  IF BeginRaises(t)
           THEN /\ Return(t, Raised(result))
                /\ UNCHANGED <<memories, memories_fts, inTxn>>
           ELSE /\ memories' = r.table
                /\ memories_fts' = r.fts
                /\ inTxn' = (thr[t].begin \/ inTxn)
                /\ IF r.raised
                   THEN Return(t, Raised(result))
                   ELSE ToCommit(t, result, r.rowcount)
    /\ UNCHANGED <<embeddings, lastRowId, now, calls, accDone, accRaised>>
    /\ ServiceUnchanged

T_delete_execute(t) ==
    /\ thr[t].pc = "execute" /\ thr[t].op = "delete_memory"
    /\ LET id == thr[t].id
           r == DeleteStmt(memories, memories_fts, embeddings, id)
       IN  IF BeginRaises(t)
           THEN /\ Return(t, [op |-> "delete_memory", raised |-> TRUE, id |-> id, ret |-> FALSE])
                /\ UNCHANGED <<memories, memories_fts, embeddings, inTxn>>
           ELSE /\ memories' = r.table
                /\ memories_fts' = r.fts
                /\ embeddings' = r.embeddings
                /\ inTxn' = (thr[t].begin \/ inTxn)
                /\ ToCommit(t, [op |-> "delete_memory", raised |-> FALSE, id |-> id,
                                ret |-> DeleteResult(r.rowcount)], r.rowcount)
    /\ UNCHANGED <<lastRowId, now, calls, accDone, accRaised>>
    /\ ServiceUnchanged

T_access_execute(t) ==
    /\ thr[t].pc = "execute" /\ thr[t].op = "update_access_stats"
    /\ LET id == thr[t].id
           r == AccessStmt(memories, memories_fts, id, now, thr[t].seen)
           result == [op |-> "update_access_stats", raised |-> FALSE, id |-> id]
       IN  IF BeginRaises(t)
           THEN /\ Return(t, Raised(result))
                /\ CountAccess(result.op, id, TRUE, 0)
                /\ UNCHANGED <<memories, memories_fts, inTxn>>
           ELSE /\ memories' = r.table
                /\ memories_fts' = r.fts
                /\ inTxn' = (thr[t].begin \/ inTxn)
                /\ IF r.raised
                   THEN Return(t, Raised(result)) /\ CountAccess(result.op, id, TRUE, 0)
                   ELSE ToCommit(t, result, r.rowcount) /\ UNCHANGED <<accDone, accRaised>>
    /\ UNCHANGED <<embeddings, lastRowId, now, calls>>
    /\ ServiceUnchanged

(* self.conn.commit(), first half: is a transaction open? *)
T_commit_test(t) ==
    /\ thr[t].pc = "commit"
    /\ Goto(t, [thr[t] EXCEPT !.pc = "committing", !.commit = inTxn])
    /\ UNCHANGED <<memories, embeddings, memories_fts, lastRowId, now, calls, inTxn,
                   accDone, accRaised>>
    /\ ServiceUnchanged

(* self.conn.commit(), second half: COMMIT ends the connection's transaction,
   whichever thread began it; then the call returns *)
T_commit(t) ==
    /\ thr[t].pc = "committing"
    /\ inTxn' = IF thr[t].commit THEN FALSE ELSE inTxn
    /\ Return(t, IF CommitRaises(t) THEN Raised(thr[t].result) ELSE thr[t].result)
    /\ CountAccess(thr[t].op, thr[t].id, CommitRaises(t), thr[t].rowcount)
    /\ UNCHANGED <<memories, embeddings, memories_fts, lastRowId, now, calls>>
    /\ ServiceUnchanged

T_get_memory(t, id) ==
    /\ thr[t].pc = "idle"
    /\ Return(t, [op |-> "get_memory", raised |-> FALSE, id |-> id,
                  ret |-> GetMemory(memories, id)])
    /\ UNCHANGED <<memories, embeddings, memories_fts, lastRowId, now, calls, inTxn,
                   accDone, accRaised>>
    /\ ServiceUnchanged

T_fts_search(t, query) ==
    /\ thr[t].pc = "idle"
    /\ Return(t, [op |-> "_fts_search", raised |-> FALSE, query |-> query,
                  ret |-> DOMAIN _fts_search(memories_fts, query, KeywordLimit)])
    /\ UNCHANGED <<memories, embeddings, memories_fts, lastRowId, now, calls, inTxn,
                   accDone, accRaised>>
    /\ ServiceUnchanged

ConcArgs ==
    {a \in UpdateArgs : IsNone(a.metadata) /\ IsNone(a.importance_score)}

NextConc ==
    \/ \E t \in Threads, c \in Contents, ti \in Titles : T_add_memory(t, c, ti)
    \/ \E t \in Threads, id \in Ids, a \in ConcArgs : T_update_memory(t, id, a)
    \/ \E t \in Threads, id \in Ids : T_delete_memory(t, id)
    \/ \E t \in Threads, id \in Ids : T_update_access_stats(t, id)
    \/ \E t \in Threads : T_begin(t)
    \/ \E t \in Threads : T_add_execute(t)
    \/ \E t \in Threads : T_update_execute(t)
    \/ \E t \in Threads : T_delete_execute(t)
    \/ \E t \in Threads : T_access_execute(t)
    \/ \E t \in Threads : T_commit_test(t)
    \/ \E t \in Threads : T_commit(t)
    \/ \E t \in Threads, id \in Ids : T_get_memory(t, id)
    \/ \E t \in Threads, q \in Queries : T_fts_search(t, q)

SpecConc == InitConc /\ [][NextConc]_vars

----------------------------------------------------------------------------
(* rebuild_embeddings statement by statement, in a thread of the shared
   connection while another thread reads the embeddings table.  thr[t] holds
   the locals of the call: memories (the list get_all_memories returned), i
   (the start of the batch, as in range(0, len(memories), batch_size)), k
   (the position in the batch), commits (conn.commit() calls made) and had
   (the memory_ids that had an embeddings row when the call started). *)

BatchSizes == {1, 2}

RebuildPcs == {"rebuild_embed", "rebuild_delete", "rebuild_insert", "rebuild_commit"}

(* batch = memories[i:i + batch_size] *)
BatchOf(st) ==
    SubSeq(st.memories, st.i + 1, Min2(st.i + st.batch_size, Len(st.memories)))

(* memories = self.db.get_all_memories(); an empty list makes no batch *)
R_rebuild_embeddings(t, batch_size) ==
    /\ thr[t].pc = "idle" /\ calls < MaxCalls
    /\ \A u \in Threads : thr[u].pc \notin RebuildPcs
    /\ LET all == GetAllMemories(memories, NoneVal)
       IN  IF all = << >>
           THEN Return(t, [op |-> "rebuild_embeddings", raised |-> FALSE, commits |-> 0,
                           batches |-> 0])
           ELSE Goto(t, [pc |-> "rebuild_embed", batch_size |-> batch_size,
                         memories |-> all, i |-> 0, k |-> 1, commits |-> 0,
                         had |-> DOMAIN embeddings \cap DOMAIN memories])
    /\ calls' = calls + 1
    /\ UNCHANGED <<memories, embeddings, memories_fts, lastRowId, now, inTxn,
                   accDone, accRaised>>
    /\ ServiceUnchanged

(* embeddings = self.embedder.embed_batch(texts); an error of the embedder
   leaves the call with the batches before this one committed *)
R_embed_batch(t, embedder_ok) ==
    /\ thr[t].pc = "rebuild_embed"
    /\ IF embedder_ok
       THEN Goto(t, [thr[t] EXCEPT !.pc = "rebuild_delete", !.k = 1])
       ELSE Return(t, [op |-> "rebuild_embeddings", raised |-> TRUE,
                       commits |-> thr[t].commits, batches |-> thr[t].commits])
    /\ UNCHANGED <<memories, embeddings, memories_fts, lastRowId, now, calls, inTxn,
                   accDone, accRaised>>
    /\ ServiceUnchanged

(* cursor.execute("DELETE FROM embeddings WHERE memory_id = ?"): the sqlite3
   module opens a transaction before it when none is open *)
R_delete(t) ==
    /\ thr[t].pc = "rebuild_delete"
    /\ embeddings' = Remove(embeddings, BatchOf(thr[t])[thr[t].k].id)
    /\ inTxn' = TRUE
    /\ Goto(t, [thr[t] EXCEPT !.pc = "rebuild_insert"])
    /\ UNCHANGED <<memories, memories_fts, lastRowId, now, calls, accDone, accRaised>>
    /\ ServiceUnchanged

(* cursor.execute("INSERT INTO embeddings ..."), and the next memory of the
   batch or the end of the inner loop *)
R_insert(t) ==
    /\ thr[t].pc = "rebuild_insert"
    /\ LET memory == BatchOf(thr[t])[thr[t].k]
       IN  embeddings' = Put(embeddings, memory.id,
                             EmbeddingRow(memory.title, memory.content))
    /\ IF thr[t].k < Len(BatchOf(thr[t]))
       THEN Goto(t, [thr[t] EXCEPT !.pc = "rebuild_delete", !.k = @ + 1])
       ELSE Goto(t, [thr[t] EXCEPT !.pc = "rebuild_commit"])
    /\ UNCHANGED <<memories, memories_fts, lastRowId, now, calls, inTxn, accDone, accRaised>>
    /\ ServiceUnchanged

(* self.db.conn.commit(), and the next batch or the end of the call *)
R_commit(t) ==
    /\ thr[t].pc = "rebuild_commit"
    /\ inTxn' = FALSE
    /\ LET st == [thr[t] EXCEPT !.commits = @ + 1, !.i = @ + thr[t].batch_size]
       IN  IF st.i < Len(st.memories)
           THEN Goto(t, [st EXCEPT !.pc = "rebuild_embed"])
           ELSE Return(t, [op |-> "rebuild_embeddings", raised |-> FALSE,
                           commits |-> st.commits,
                           batches |-> (Len(st.memories) + st.batch_size - 1)
                                           \div st.batch_size])
    /\ UNCHANGED <<memories, embeddings, memories_fts, lastRowId, now, calls,
                   accDone, accRaised>>
    /\ ServiceUnchanged

(* another thread's "SELECT embedding FROM embeddings WHERE memory_id = ?"
   (_diversify_results) on the shared connection *)
T_read_embedding(t, id) ==
    /\ thr[t].pc = "idle"
    /\ Return(t, [op |-> "read_embedding", raised |-> FALSE, id |-> id,
                  found |-> id \in DOMAIN embeddings])
    /\ UNCHANGED <<memories, embeddings, memories_fts, lastRowId, now, calls, inTxn,
                   accDone, accRaised>>
    /\ ServiceUnchanged

NextRebuild ==
    \/ \E c \in Contents, ti \in Titles, ok \in BOOLEAN :
           add_memory_with_embedding(c, "note", ti, NoneVal, "manual", NoneVal, ok)
    \/ \E t \in Threads, b \in BatchSizes : R_rebuild_embeddings(t, b)
    \/ \E t \in Threads, ok \in BOOLEAN : R_embed_batch(t, ok)
    \/ \E t \in Threads : R_delete(t)
    \/ \E t \in Threads : R_insert(t)
    \/ \E t \in Threads : R_commit(t)
    \/ \E t \in Threads, id \in Ids : T_read_embedding(t, id)

SpecRebuild == Init /\ [][NextRebuild]_vars

----------------------------------------------------------------------------
(* src/server.py: one ClientSession on the asyncio event loop.  The loop runs
   one coroutine at a time and switches only where a coroutine awaits, so a
   step of the model is the code from one await to the next.  A call of
   websocket.send_json hands the message over before it awaits: sent lists
   the messages of the step just taken, << >> when that step sent none, and
   answered lists the agent_response and agent_error messages of the run.
   The coroutines are websocket_transcribe (variable loop), the tasks of
   _process_utterances (variable processing) and the tasks of
   _handle_end_of_utterance made by the callback of the Speechmatics session
   (variable tasks, a finished one is dropped); Speechmatics delivers
   transcripts between their steps.  A callback task that is one send_json
   (on_partial, on_final, on_error) touches nothing but the WebSocket: its
   send is part of the step that makes the task.  A text is named by the number of texts made before. *)

MaxReceived == 3
MaxHeard == 2

Word(k) == ToString(k)

StoreAndServiceUnchanged ==
    UNCHANGED <<memories, embeddings, memories_fts, lastRowId, now, calls, last, thr,
                inTxn, accDone, accRaised, _cache, ethr>>

MemoryUnchanged == StoreAndServiceUnchanged /\ AgentUnchanged

(* ClientSession.send_json; ok: websocket.send_json returned, else it raised *)
send_json(s, data, ok) ==
    IF ~s.ws_connected THEN [session |-> s, sent |-> << >>]
    ELSE IF ok THEN [session |-> s, sent |-> <<data>>]
    ELSE [session |-> [s EXCEPT !.ws_connected = FALSE], sent |-> << >>]

Sends(s, data, ok) ==
    \E r \in {send_json(s, data, ok)} : session' = r.session /\ sent' = r.sent

(* a send of the coroutine and then the send of a task made before it *)
SendsBoth(s, data, ok, task_data, task_ok) ==
    \E r \in {send_json(s, data, ok)} :
    \E q \in {send_json(r.session, task_data, task_ok)} :
        session' = q.session /\ sent' = r.sent \o q.sent

ErrorMessage(message) == [type |-> "error", message |-> message]

(* asyncio.Task.done() *)
TaskDone(pt, ref) == pt[ref].pc \in {"done", "cancelled"}

(* _enqueue_prompt starts a task for every prompt (the test of line 424 left out) *)
NeedsTask_Always(s, pt) == TRUE

(* self._processing_task is None or self._processing_task.done() *)
NeedsTask(s, pt) ==
    IsNone(s._processing_task) \/ TaskDone(pt, s._processing_task[1])

QueuedItem(raw_text, prompt_text, mode) ==
    [raw_text |-> raw_text, prompt_text |-> prompt_text, mode |-> mode]

_enqueue_prompt(s, pt, item) ==
    LET queued == [s EXCEPT !._pending_utterances = Append(@, item)]
    IN  IF NeedsTask(s, pt)
        THEN [session |-> [queued EXCEPT !._processing_task = Some(Len(pt) + 1)],
              processing |-> Append(pt, [pc |-> "created"])]
        ELSE [session |-> queued, processing |-> pt]

Enqueues(s, item) ==
    /\ \E r \in {_enqueue_prompt(s, processing, item)} :
           session' = r.session /\ processing' = r.processing
    /\ enqueued' = Append(enqueued, item)

(* SpeechmaticsSession *)
NewSpeechmatics(state) ==
    [state |-> state, current_utterance |-> << >>, last_partial |-> EmptyText]

RECURSIVE JoinTexts(_)
JoinTexts(list) == IF list = << >> THEN EmptyText ELSE Head(list) \o JoinTexts(Tail(list))

get_pending_text(sm) ==
    IF sm.current_utterance # << >> THEN Some(Strip(JoinTexts(sm.current_utterance)))
    ELSE IF sm.last_partial # EmptyText THEN Some(Strip(sm.last_partial))
    ELSE NoneVal

(* asyncio.create_task(self._handle_end_of_utterance(text)) *)
EndOfUtteranceTask(text) == [pc |-> "created", text |-> text]

(* websocket_transcribe is at "message = await websocket.receive()"; after a
   send has failed the connection is gone and only the disconnect arrives *)
Receiving == loop.pc = "receive" /\ session.ws_connected /\ received < MaxReceived

(* a start has to wait as long as prompts are processed *)
MustWait_WhileProcessing(s, pt) ==
    s.recording_state = "stopping" \/ \E i \in DOMAIN pt : ~TaskDone(pt, i)

(* "if self.recording_state == RecordingState.STOPPING" *)
MustWait(s, pt) == s.recording_state = "stopping"

handle_start(api_key, ok) ==
    /\ Receiving
    /\ received' = received + 1
    /\ IF session.recording_state = "recording"
       THEN Sends(session, [type |-> "started"], ok) /\ UNCHANGED loop
       ELSE IF MustWait(session, processing)
       THEN Sends(session, ErrorMessage("Please wait for stop to complete"), ok)
            /\ UNCHANGED loop
       ELSE IF ~api_key
       THEN Sends(session, ErrorMessage("Speechmatics API key not configured"), ok)
            /\ UNCHANGED loop
       ELSE /\ session' = [session EXCEPT !.speechmatics = Some(NewSpeechmatics("starting"))]
            /\ loop' = [pc |-> "start"]
            /\ sent' = << >>
    /\ UNCHANGED <<tasks, enqueued, heard, answered, processing>>
    /\ UNCHANGED shutdown /\ AppUnchanged /\ MemoryUnchanged

(* "self.state = ..." of a SpeechmaticsSession method, seen from the session:
   nothing to see when the session no longer refers to the object *)
SetState(s, state) ==
    IF IsNone(s.speechmatics) THEN s ELSE [s EXCEPT !.speechmatics[1].state = state]

(* handle_start after "await self.speechmatics.start(...)"; start() writes
   the state of the object it runs on, which close() may have taken from
   the session meanwhile (shutdown.state) *)
start_session(success, ok, task_ok) ==
    /\ loop.pc = "start"
    /\ shutdown' = IF IsNone(session.speechmatics)
                   THEN [shutdown EXCEPT !.state = Some(IF success THEN "running" ELSE "error")]
                   ELSE shutdown
    /\ IF success
       THEN /\ Sends([SetState(session, "running") EXCEPT !.recording_state = "recording"],
                     [type |-> "started"], ok)
            /\ loop' = [pc |-> "started"]
       ELSE /\ SendsBoth(SetState(session, "error"),
                         ErrorMessage("Failed to start Speechmatics session"), ok,
                         ErrorMessage("start_session raised"), task_ok)
            /\ loop' = [pc |-> "receive"]
    /\ UNCHANGED <<tasks, enqueued, received, heard, answered, processing>>
    /\ AppUnchanged /\ MemoryUnchanged

start_state(ok) ==
    /\ loop.pc = "started"
    /\ Sends(session, [type |-> "recording_state", state |-> "recording"], ok)
    /\ loop' = [pc |-> "receive"]
    /\ UNCHANGED <<tasks, enqueued, received, heard, answered, processing>>
    /\ UNCHANGED shutdown /\ AppUnchanged /\ MemoryUnchanged

(* handle_stop from its last await on: back to idle, "stopped" *)
StopToIdle(s, ok) ==
    /\ Sends([s EXCEPT !.speechmatics = NoneVal, !.recording_state = "idle"],
             [type |-> "stopped"], ok)
    /\ loop' = [pc |-> "stop_state"]

handle_stop(ok) ==
    /\ Receiving
    /\ received' = received + 1
    /\ IF session.recording_state # "recording"
       THEN Sends(session, [type |-> "stopped"], ok) /\ UNCHANGED loop
       ELSE IF IsNone(session.speechmatics)
       THEN StopToIdle(session, ok)
       ELSE /\ loop' = [pc |-> "stop_close",
                        pending_text |-> get_pending_text(session.speechmatics[1])]
            /\ session' = [session EXCEPT !.speechmatics[1].state =
                               IF @ \in {"closed", "closing"} THEN @ ELSE "closing"]
            /\ sent' = << >>
    /\ UNCHANGED <<tasks, enqueued, heard, answered, processing>>
    /\ UNCHANGED shutdown /\ AppUnchanged /\ MemoryUnchanged

(* handle_stop after "await self.speechmatics.close()" *)
stop_closed(ok) ==
    /\ loop.pc = "stop_close"
    /\ \E s \in {SetState(session, "closed")} :
           IF ~IsNone(loop.pending_text) /\ loop.pending_text[1] # EmptyText
           THEN /\ Sends(s, [type |-> "end_of_utterance", text |-> loop.pending_text[1]], ok)
                /\ loop' = [loop EXCEPT !.pc = "stop_flush"]
           ELSE StopToIdle(s, ok)
    /\ UNCHANGED <<tasks, enqueued, received, heard, answered, processing>>
    /\ UNCHANGED shutdown /\ AppUnchanged /\ MemoryUnchanged

(* handle_stop after the send of _handle_end_of_utterance(pending_text) *)
stop_flush(ok) ==
    /\ loop.pc = "stop_flush"
    /\ \E text \in {loop.pending_text[1]} :
       \E r \in {_enqueue_prompt(session, processing, QueuedItem(text, text, "voice"))} :
           /\ processing' = r.processing
           /\ enqueued' = Append(enqueued, QueuedItem(text, text, "voice"))
           /\ StopToIdle(r.session, ok)
    /\ UNCHANGED <<tasks, received, heard, answered>>
    /\ UNCHANGED shutdown /\ AppUnchanged /\ MemoryUnchanged

stop_state(ok) ==
    /\ loop.pc = "stop_state"
    /\ Sends(session, [type |-> "recording_state", state |-> "idle"], ok)
    /\ loop' = [pc |-> "receive"]
    /\ UNCHANGED <<tasks, enqueued, received, heard, answered, processing>>
    /\ UNCHANGED shutdown /\ AppUnchanged /\ MemoryUnchanged

(* build_chat_prompt: the question behind the notes and the calendar, when
   there are any *)
build_chat_prompt(user_input, context) ==
    IF context = EmptyText THEN user_input
    ELSE <<"USER'S">> \o context \o <<"QUESTION:">> \o user_input

ChatContexts == {<<"NOTES:", "alpha">>}

(* the "text" of a chat message: blank, or a word in spaces *)
ChatTexts(word) == {<<SP>>, <<SP, word, SP>>}

handle_chat(message_text, context, ok) ==
    /\ Receiving
    /\ heard < MaxHeard
    /\ received' = received + 1
    /\ heard' = heard + 1
    /\ \E text \in {Strip(message_text)} :
           IF text = EmptyText
           THEN /\ Sends(session, ErrorMessage("Chat text is required"), ok)
                /\ UNCHANGED <<processing, enqueued>>
           ELSE /\ Enqueues(session, QueuedItem(text, build_chat_prompt(text, context), "chat"))
                /\ sent' = << >>
    /\ UNCHANGED <<loop, tasks, answered>>
    /\ UNCHANGED shutdown /\ AppUnchanged /\ MemoryUnchanged

(* a message of another type, or one that is no JSON *)
handle_unknown(ok) ==
    /\ Receiving
    /\ received' = received + 1
    /\ Sends(session, ErrorMessage("Unknown message type"), ok)
    /\ UNCHANGED <<loop, tasks, enqueued, heard, answered, processing>>
    /\ UNCHANGED shutdown /\ AppUnchanged /\ MemoryUnchanged

SpeechmaticsRunning ==
    ~IsNone(session.speechmatics) /\ session.speechmatics[1].state = "running"

(* binary audio: forwarded while recording; audio_ok: client.send_audio
   returned, else on_error makes a task that reports it *)
handle_audio(audio_ok, task_ok) ==
    /\ Receiving
    /\ received' = received + 1
    /\ IF session.recording_state = "recording" /\ SpeechmaticsRunning /\ ~audio_ok
       THEN Sends(session, ErrorMessage("Error sending audio"), task_ok)
       ELSE UNCHANGED session /\ sent' = << >>
    /\ UNCHANGED <<loop, tasks, enqueued, heard, answered, processing>>
    /\ UNCHANGED shutdown /\ AppUnchanged /\ MemoryUnchanged

(* ClientSession.close: "if self._processing_task and not
   self._processing_task.done(): self._processing_task.cancel()" *)
CancelProcessing(s, pt) ==
    IF ~IsNone(s._processing_task) /\ ~TaskDone(pt, s._processing_task[1])
    THEN [pt EXCEPT ![s._processing_task[1]] = [pc |-> "cancelled"]]
    ELSE pt

(* websocket.disconnect, or an exception of the loop: ClientSession.close *)
disconnect ==
    /\ loop.pc = "receive"
    /\ IF ~IsNone(session.speechmatics)
       THEN session' = [session EXCEPT !.ws_connected = FALSE,
                            !.speechmatics[1].state =
                                IF @ \in {"closed", "closing"} THEN @ ELSE "closing"]
       ELSE session' = [session EXCEPT !.ws_connected = FALSE]
    /\ loop' = [pc |-> "close"]
    /\ UNCHANGED <<tasks, enqueued, received, heard, answered, processing>>
    /\ sent' = << >>
    /\ UNCHANGED shutdown /\ AppUnchanged /\ MemoryUnchanged

(* close after "await self.speechmatics.close()": the processing task is
   cancelled when it is not done *)
close ==
    /\ loop.pc = "close"
    /\ session' = [session EXCEPT !.speechmatics = NoneVal]
    /\ processing' = CancelProcessing(session, processing)
    /\ loop' = [pc |-> "closed"]
    /\ UNCHANGED <<tasks, enqueued, received, heard, answered>>
    /\ sent' = << >>
    /\ UNCHANGED shutdown /\ AppUnchanged /\ MemoryUnchanged

(* Speechmatics delivers transcripts while its session runs or closes *)
Transcribing ==
    ~IsNone(session.speechmatics)
    /\ session.speechmatics[1].state \in {"running", "closing"}

(* ADD_TRANSCRIPT *)
handle_final(task_ok) ==
    /\ Transcribing
    /\ heard < MaxHeard
    /\ heard' = heard + 1
    /\ \E text \in {<<Word(heard + 1)>>} :
           Sends([session EXCEPT
                      !.speechmatics[1].current_utterance = Append(@, text),
                      !.speechmatics[1].last_partial = EmptyText],
                 [type |-> "final", text |-> text], task_ok)
    /\ UNCHANGED <<loop, tasks, enqueued, received, answered, processing>>
    /\ UNCHANGED shutdown /\ AppUnchanged /\ MemoryUnchanged

(* ADD_PARTIAL_TRANSCRIPT *)
handle_partial(task_ok) ==
    /\ Transcribing
    /\ heard < MaxHeard
    /\ heard' = heard + 1
    /\ \E text \in {<<Word(heard + 1)>>} :
           Sends([session EXCEPT !.speechmatics[1].last_partial = text],
                 [type |-> "partial", text |-> text], task_ok)
    /\ UNCHANGED <<loop, tasks, enqueued, received, answered, processing>>
    /\ UNCHANGED shutdown /\ AppUnchanged /\ MemoryUnchanged

(* END_OF_UTTERANCE *)
handle_end_of_utterance ==
    /\ Transcribing
    /\ session.speechmatics[1].current_utterance # << >>
    /\ \E full_utterance \in {Strip(JoinTexts(session.speechmatics[1].current_utterance))} :
           /\ session' = [session EXCEPT
                              !.speechmatics[1].current_utterance = << >>,
                              !.speechmatics[1].last_partial = EmptyText]
           /\ tasks' = IF full_utterance # EmptyText
                       THEN Append(tasks, EndOfUtteranceTask(full_utterance))
                       ELSE tasks
    /\ UNCHANGED <<loop, enqueued, received, heard, answered, processing>>
    /\ sent' = << >>
    /\ UNCHANGED shutdown /\ AppUnchanged /\ MemoryUnchanged

(* a task that has returned is dropped *)
Finish(tk, i) == [k \in 1..(Len(tk) - 1) |-> IF k < i THEN tk[k] ELSE tk[k + 1]]

(* a task of _handle_end_of_utterance, up to its await *)
_handle_end_of_utterance(i, ok) ==
    /\ tasks[i].pc = "created"
    /\ Sends(session, [type |-> "end_of_utterance", text |-> tasks[i].text], ok)
    /\ tasks' = [tasks EXCEPT ![i].pc = "sent"]
    /\ UNCHANGED <<loop, enqueued, received, heard, answered, processing>>
    /\ UNCHANGED shutdown /\ AppUnchanged /\ MemoryUnchanged

(* and after it *)
end_of_utterance_enqueue(i) ==
    /\ tasks[i].pc = "sent"
    /\ \E item \in {QueuedItem(tasks[i].text, tasks[i].text, "voice")} :
       \E r \in {_enqueue_prompt(session, processing, item)} :
           /\ session' = r.session
           /\ processing' = r.processing
           /\ tasks' = Finish(tasks, i)
           /\ enqueued' = Append(enqueued, item)
    /\ UNCHANGED <<loop, received, heard, answered>>
    /\ sent' = << >>
    /\ UNCHANGED shutdown /\ AppUnchanged /\ MemoryUnchanged

(* "if not self.ws_connected: break" *)
KeepsOn(s) == s.ws_connected

(* _process_utterances at the head of its while loop *)
LoopHead(s, pt, i) ==
    IF s._pending_utterances = << >> \/ ~KeepsOn(s)
    THEN [session |-> s, processing |-> [pt EXCEPT ![i] = [pc |-> "done"]]]
    ELSE [session |-> [s EXCEPT !._pending_utterances = Tail(@)],
          processing |-> [pt EXCEPT ![i] = [pc |-> "agent",
                                            item |-> Head(s._pending_utterances)]]]

(* the task starts, or wakes from asyncio.sleep(2.0) *)
process_next(i) ==
    /\ processing[i].pc \in {"created", "sleep"}
    /\ \E r \in {LoopHead(session, processing, i)} :
           session' = r.session /\ processing' = r.processing
    /\ UNCHANGED <<loop, tasks, enqueued, received, heard, answered>>
    /\ sent' = << >>
    /\ UNCHANGED shutdown /\ AppUnchanged /\ MemoryUnchanged

(* the agent returned a result, or raised *)
process_answer(i, raised, ok) ==
    /\ processing[i].pc = "agent"
    /\ Sends(session, [type |-> IF raised THEN "agent_error" ELSE "agent_response",
                       prompt |-> processing[i].item.raw_text], ok)
    /\ answered' = answered \o sent'
    /\ processing' = [processing EXCEPT ![i] = [pc |-> "sent"]]
    /\ UNCHANGED <<loop, tasks, enqueued, received, heard>>
    /\ UNCHANGED shutdown /\ AppUnchanged /\ MemoryUnchanged

(* after the send: sleep when prompts are left, else the loop ends *)
process_sent(i) ==
    /\ processing[i].pc = "sent"
    /\ processing' = [processing EXCEPT ![i].pc =
                          IF session._pending_utterances # << >> THEN "sleep" ELSE "done"]
    /\ UNCHANGED <<session, loop, tasks, enqueued, received, heard, answered>>
    /\ sent' = << >>
    /\ UNCHANGED shutdown /\ AppUnchanged /\ MemoryUnchanged

ProcessingStep ==
    \E i \in DOMAIN processing :
        \/ process_next(i)
        \/ \E raised \in BOOLEAN, ok \in BOOLEAN : process_answer(i, raised, ok)
        \/ process_sent(i)

CallbackStep ==
    \E i \in DOMAIN tasks :
        \/ \E ok \in BOOLEAN : _handle_end_of_utterance(i, ok)
        \/ end_of_utterance_enqueue(i)

HandlerStep ==
    \/ \E success \in BOOLEAN, ok \in BOOLEAN, task_ok \in BOOLEAN :
           start_session(success, ok, task_ok)
    \/ \E ok \in BOOLEAN : start_state(ok)
    \/ \E ok \in BOOLEAN : stop_closed(ok)
    \/ \E ok \in BOOLEAN : stop_flush(ok)
    \/ \E ok \in BOOLEAN : stop_state(ok)
    \/ close

NextSession ==
    \/ \E api_key \in BOOLEAN, ok \in BOOLEAN : handle_start(api_key, ok)
    \/ \E ok \in BOOLEAN : handle_stop(ok)
    \/ \E text \in ChatTexts(Word(heard + 1)), context \in ChatContexts, ok \in BOOLEAN :
           handle_chat(text, context, ok)
    \/ \E ok \in BOOLEAN : handle_unknown(ok)
    \/ \E audio_ok \in BOOLEAN, task_ok \in BOOLEAN : handle_audio(audio_ok, task_ok)
    \/ disconnect
    \/ \E task_ok \in BOOLEAN : handle_final(task_ok)
    \/ \E task_ok \in BOOLEAN : handle_partial(task_ok)
    \/ handle_end_of_utterance
    \/ HandlerStep
    \/ CallbackStep
    \/ ProcessingStep

InitSessionRun == InitEmpty /\ InitRun

(* the event loop runs every task that is ready, and the calls a coroutine
   awaits (the agent, the WebSocket, Speechmatics) return *)
SpecSession ==
    /\ InitSessionRun
    /\ [][NextSession]_vars
    /\ WF_vars(ProcessingStep)
    /\ WF_vars(CallbackStep)
    /\ WF_vars(HandlerStep)

----------------------------------------------------------------------------
(* shutdown_event: the server closes the sessions still in active_sessions,
   in a coroutine of its own next to websocket_transcribe.  shutdown.state is
   the state of the SpeechmaticsSession that close() took from the session
   while handle_start was inside start() on it: start() keeps its reference
   and writes the state when start_session returns. *)

(* "self.speechmatics = None" in close() *)
Detached(state) == IF loop.pc = "start" THEN Some(state) ELSE NoneVal

(* session.close() up to "await self.client.close()" in
   SpeechmaticsSession.close, or to its end when nothing is awaited *)
shutdown_event ==
    /\ shutdown.pc = "idle"
    /\ loop.pc # "closed"
    /\ IF IsNone(session.speechmatics)
       THEN /\ session' = [session EXCEPT !.ws_connected = FALSE]
            /\ processing' = CancelProcessing(session, processing)
            /\ shutdown' = [pc |-> "done", state |-> NoneVal]
       ELSE IF session.speechmatics[1].state \in {"closed", "closing"}
       THEN /\ session' = [session EXCEPT !.ws_connected = FALSE, !.speechmatics = NoneVal]
            /\ processing' = CancelProcessing(session, processing)
            /\ shutdown' = [pc |-> "done", state |-> Detached(session.speechmatics[1].state)]
       ELSE /\ session' = [SetState(session, "closing") EXCEPT !.ws_connected = FALSE]
            /\ shutdown' = [pc |-> "close", state |-> NoneVal]
            /\ UNCHANGED processing
    /\ sent' = << >>
    /\ UNCHANGED <<loop, tasks, enqueued, received, heard, answered>>
    /\ AppUnchanged /\ MemoryUnchanged

(* after "await self.client.close()": CLOSED, the session lets go of the
   object, the processing task is cancelled *)
shutdown_closed ==
    /\ shutdown.pc = "close"
    /\ session' = [session EXCEPT !.speechmatics = NoneVal]
    /\ processing' = CancelProcessing(session, processing)
    /\ shutdown' = [pc |-> "done",
                    state |-> IF IsNone(session.speechmatics) THEN shutdown.state
                              ELSE Detached("closed")]
    /\ sent' = << >>
    /\ UNCHANGED <<loop, tasks, enqueued, received, heard, answered>>
    /\ AppUnchanged /\ MemoryUnchanged

NextShutdown ==
    \/ NextSession
    \/ shutdown_event
    \/ shutdown_closed

SpecShutdown == InitSessionRun /\ [][NextShutdown]_vars

----------------------------------------------------------------------------
(* src/app.py: the prompt queue of SecondBrainApp on the asyncio event loop.
   add_to_queue is a plain function, called from the END_OF_UTTERANCE
   callback; a task of process_queue runs from one await to the next. *)

MaxPrompts == 3

QueuedPrompt(text, status) == [text |-> text, status |-> status]

(* add_to_queue, the callers' texts named by the number of the prompt *)
add_to_queue ==
    /\ app.prompt_counter < MaxPrompts
    /\ \E id \in {app.prompt_counter + 1} :
           /\ prompts' = Put(prompts, id, QueuedPrompt(<<Word(id)>>, "queued"))
           /\ IF ~app.is_processing
              THEN /\ app' = [app EXCEPT !.prompt_counter = id,
                                         !.prompt_queue = Append(@, id),
                                         !.processing_task = Some(Len(atasks) + 1)]
                   /\ atasks' = Append(atasks, [pc |-> "created"])
              ELSE /\ app' = [app EXCEPT !.prompt_counter = id,
                                         !.prompt_queue = Append(@, id)]
                   /\ UNCHANGED atasks
    /\ SessionUnchanged /\ MemoryUnchanged

(* process_queue at "prompt = self.prompt_queue[0]": on an empty deque the
   IndexError ends the task *)
TakeFirst(i) ==
    IF app.prompt_queue = << >>
    THEN /\ atasks' = [atasks EXCEPT ![i] = [pc |-> "raised"]]
         /\ UNCHANGED prompts
    ELSE /\ atasks' = [atasks EXCEPT ![i] = [pc |-> "agent",
                                             prompt |-> Head(app.prompt_queue)]]
         /\ prompts' = [prompts EXCEPT ![Head(app.prompt_queue)].status = "processing"]

(* the task starts: is_processing, the first test of the while loop *)
process_queue(i) ==
    /\ atasks[i].pc = "created"
    /\ IF app.prompt_queue = << >>
       THEN /\ app' = [app EXCEPT !.is_processing = FALSE]
            /\ atasks' = [atasks EXCEPT ![i] = [pc |-> "done"]]
            /\ UNCHANGED prompts
       ELSE /\ app' = [app EXCEPT !.is_processing = TRUE]
            /\ TakeFirst(i)
    /\ SessionUnchanged /\ MemoryUnchanged

(* the agent returned or raised: status, popleft, completed_prompts, and the
   next test of the while loop *)
process_result(i, raised) ==
    /\ atasks[i].pc = "agent"
    /\ prompts' = [prompts EXCEPT ![atasks[i].prompt].status =
                       IF raised THEN "error" ELSE "completed"]
    /\ IF app.prompt_queue = << >>
       THEN /\ atasks' = [atasks EXCEPT ![i] = [pc |-> "raised"]]
            /\ UNCHANGED app
       ELSE \E rest \in {Tail(app.prompt_queue)} :
            /\ app' = [app EXCEPT !.prompt_queue = rest,
                                  !.completed_prompts = Append(@, atasks[i].prompt),
                                  !.is_processing = IF rest = << >> THEN FALSE ELSE @]
            /\ atasks' = [atasks EXCEPT ![i] =
                              [pc |-> IF rest = << >> THEN "done" ELSE "sleep"]]
    /\ SessionUnchanged /\ MemoryUnchanged

(* after asyncio.sleep(4.0) *)
process_wake(i) ==
    /\ atasks[i].pc = "sleep"
    /\ TakeFirst(i)
    /\ UNCHANGED app
    /\ SessionUnchanged /\ MemoryUnchanged

NextApp ==
    \/ add_to_queue
    \/ \E i \in DOMAIN atasks : process_queue(i)
    \/ \E i \in DOMAIN atasks, raised \in BOOLEAN : process_result(i, raised)
    \/ \E i \in DOMAIN atasks : process_wake(i)

SpecApp == InitSessionRun /\ [][NextApp]_vars

(* a step of a task of process_queue *)
QueueStep ==
    \E i \in DOMAIN atasks :
        \/ process_queue(i)
        \/ \E raised \in BOOLEAN : process_result(i, raised)
        \/ process_wake(i)

(* the event loop runs every task that is ready, and the agent returns *)
SpecAppFair == SpecApp /\ WF_vars(QueueStep)

----------------------------------------------------------------------------
(* src/delegation_agent.py: process_utterance_with_tools on the asyncio event
   loop, a step from one await to the next.  _process_utterance_internal is
   the call of the model and its tools: it returns a ProcessingResult or
   raises.  The text of an error is a sequence of symbols in which "429" is
   the three digits, so that the substring test is a test the model makes.
   agent holds the locals of the call and log, the outcomes of the calls of
   _process_utterance_internal so far. *)

MaxRetries == 3

ProcessingResult(response, tools_used, agents_used) ==
    [response |-> response, tools_used |-> tools_used, agents_used |-> agents_used]

(* piece in text, for str *)
Occurs(piece, text) ==
    \E i \in 1..(Len(text) - Len(piece) + 1) : SubSeq(text, i, i + Len(piece) - 1) = piece

(* IsRateLimit that takes every error for a rate limit error *)
IsRateLimit_AnyError(error_str) == TRUE

(* "429" in error_str or "RESOURCE_EXHAUSTED" in error_str *)
IsRateLimit(error_str) ==
    \/ Occurs(<<"4", "2", "9">>, error_str)
    \/ Occurs(<<"RESOURCE_EXHAUSTED">>, error_str)

(* the results and the errors of _process_utterance_internal *)
InternalResults ==
    {ProcessingResult(<<"Noted.">>, <<"save_note">>, <<"notes_agent">>),
     ProcessingResult(<<"No response generated">>, << >>, << >>)}

InternalErrors ==
    {<<"4", "2", "9", SP, "Too Many Requests">>,
     <<"quota", SP, "RESOURCE_EXHAUSTED">>,
     <<"4", "2", SP, "9", SP, "timeout">>,
     <<"connection reset">>}

(* f"Rate limit exceeded after {max_retries} retries." *)
RateLimitResult(max_retries) ==
    ProcessingResult(<<"Rate limit exceeded after ", ToString(max_retries), " retries.">>,
                     << >>, << >>)

(* "for attempt in range(max_retries):" at attempt, up to the next await or
   the return after the loop; the wait is 5 * 2 ** (attempt - 1) plus up to
   2 seconds *)
ForAttempt(st, attempt) ==
    IF attempt >= st.max_retries
    THEN [pc |-> "returned", text |-> st.text, max_retries |-> st.max_retries,
          log |-> st.log, result |-> RateLimitResult(st.max_retries)]
    ELSE IF attempt > 0
    THEN [pc |-> "sleep", text |-> st.text, max_retries |-> st.max_retries,
          log |-> st.log, attempt |-> attempt, wait_time |-> 5 * 2 ^ (attempt - 1)]
    ELSE [pc |-> "internal", text |-> st.text, max_retries |-> st.max_retries,
          log |-> st.log, attempt |-> attempt]

AgentFrame == SessionUnchanged /\ AppUnchanged /\ StoreAndServiceUnchanged

process_utterance_with_tools(text, max_retries) ==
    /\ agent.pc \in {"idle", "returned", "raised"}
    /\ agent' = ForAttempt([text |-> text, max_retries |-> max_retries, log |-> << >>], 0)
    /\ AgentFrame

(* asyncio.sleep(wait_time) is over: the call of _process_utterance_internal *)
retry_wake ==
    /\ agent.pc = "sleep"
    /\ agent' = [pc |-> "internal", text |-> agent.text, max_retries |-> agent.max_retries,
                 log |-> agent.log, attempt |-> agent.attempt]
    /\ AgentFrame

(* return await _process_utterance_internal(text) *)
internal_returns(result) ==
    /\ agent.pc = "internal"
    /\ agent' = [pc |-> "returned", text |-> agent.text, max_retries |-> agent.max_retries,
                 log |-> Append(agent.log, [raised |-> FALSE, value |-> result]),
                 result |-> result]
    /\ AgentFrame

(* except Exception as e *)
internal_raises(error_str) ==
    /\ agent.pc = "internal"
    /\ \E log \in {Append(agent.log, [raised |-> TRUE, value |-> error_str])} :
           agent' = IF IsRateLimit(error_str)
                    THEN ForAttempt([agent EXCEPT !.log = log], agent.attempt + 1)
                    ELSE [pc |-> "raised", text |-> agent.text,
                          max_retries |-> agent.max_retries, log |-> log,
                          error |-> error_str]
    /\ AgentFrame

RetryInputs == -1..MaxRetries

UtteranceTexts == {<<"note this">>, <<"what is due">>}

NextAgent ==
    \/ \E text \in UtteranceTexts, max_retries \in RetryInputs :
           process_utterance_with_tools(text, max_retries)
    \/ retry_wake
    \/ \E result \in InternalResults : internal_returns(result)
    \/ \E error_str \in InternalErrors : internal_raises(error_str)

SpecAgent == InitSessionRun /\ [][NextAgent]_vars

----------------------------------------------------------------------------
(* Properties *)

Postings(id) == {p[2] : p \in {q \in memories_fts.postings : q[1] = id}}

(* the ids for which delete_memory has returned True *)
DeletedIds == (1..lastRowId) \ DOMAIN memories

(* C1: every embeddings row refers to a memory that still exists; after
   delete_memory(id) returned True no embeddings row has memory_id = id. *)
C1_EmbeddingsReferToMemories ==
    \A i \in DOMAIN embeddings : i \in DOMAIN memories

(* C2: a hybrid_search call, whatever its query, top_k and weights, returns no
   memory whose id delete_memory has deleted, also when the index or the
   embeddings table still holds an entry for that id. *)
C2_DeletedNeverReturned ==
    last.op = "hybrid_search" =>
        \A k \in 1..Len(last.ret) : last.ret[k].id \notin DeletedIds

(* a search that returned a memory while a deleted id still had an
   embeddings row and a posting that matches the query *)
C2_Witness ==
    /\ last.op = "hybrid_search"
    /\ Len(last.ret) > 0
    /\ \E d \in DeletedIds :
           /\ d \in DOMAIN embeddings
           /\ d \in FtsMatches(memories_fts, last.query)

(* C3: at the end of every mutating store operation the index holds postings
   for exactly the ids in memories, and the postings of an id are the terms
   of its current title and content. *)
C3_IndexMatchesMemories ==
    \A id \in Ids :
        Postings(id) = IF id \in DOMAIN memories
                       THEN RowTerms(memories[id].title, memories[id].content)
                       ELSE {}

(* C4: after update_memory(id, content=c2) has replaced content c1, a keyword
   search for a term that occurred only in c1 does not return id, and a
   keyword search for a term of c2 returns id. *)
C4_UpdateReindexes ==
    [][(/\ last'.op = "update_memory"
        /\ calls' = calls + 1
        /\ last'.ret
        /\ ~IsNone(last'.args.content)
        /\ last'.id \in DOMAIN memories)
       => LET id == last'.id
              c1 == memories[id].content
              c2 == last'.args.content[1]
          IN  /\ \A term \in Tokens(c1) \ RowTerms(memories'[id].title, c2) :
                     id \notin DOMAIN _fts_search(memories_fts', <<term>>, KeywordLimit)
              /\ \A term \in Tokens(c2) :
                     id \in DOMAIN _fts_search(memories_fts', <<term>>, KeywordLimit)]_vars

(* C5: while a caller is between the statement of add_memory, update_memory
   or delete_memory and its commit, and at every other point a reader of the
   connection can observe, an id has a row in memories exactly when the
   index has postings for it. *)
C5_RowAndIndexTogether ==
    \A id \in Ids : (id \in DOMAIN memories) <=> (Postings(id) # {})

(* C6: importance_score of every stored memory lies in [0,1]. *)
C6_ImportanceInRange ==
    \A id \in DOMAIN memories :
        memories[id].importance_score >= 0 /\ memories[id].importance_score <= 100

(* C7: access_count of a memory starts at 0, never decreases while the
   memory exists, and changes only in an update_access_stats call. *)
C7_AccessCountMonotone ==
    [][/\ \A id \in DOMAIN memories' \ DOMAIN memories :
              memories'[id].access_count = 0
       /\ \A id \in DOMAIN memories \cap DOMAIN memories' :
              /\ memories'[id].access_count >= memories[id].access_count
              /\ memories'[id].access_count # memories[id].access_count
                     => last'.op = "update_access_stats"]_vars

(* update_memory has changed a memory whose access_count was already 1 *)
C7_Witness ==
    /\ last.op = "update_memory"
    /\ last.ret
    /\ ~NoUpdates(last.args)
    /\ last.id \in DOMAIN memories
    /\ memories[last.id].access_count >= 1

(* the update_access_stats calls that have run their UPDATE on the row of id
   and not yet returned *)
AccessInFlight(id) ==
    {t \in Threads : /\ thr[t].pc \in {"commit", "committing"}
                     /\ thr[t].op = "update_access_stats"
                     /\ thr[t].id = id
                     /\ thr[t].rowcount = 1}

StartCount(id) == IF id = 1 THEN SeedCount ELSE 0

(* C8: under any interleaving of update_access_stats calls on the shared
   connection of which none has raised, access_count of a memory has grown
   by one for every call that has executed on it; when n calls have
   completed and none is in flight it has grown by exactly n. *)
C8_NoLostIncrement ==
    \A id \in DOMAIN memories :
        accRaised[id] = 0 =>
            memories[id].access_count
                = StartCount(id) + accDone[id] + Cardinality(AccessInFlight(id))

(* two calls for the same id overlap: both have executed, neither has returned *)
C8_Witness ==
    \E id \in DOMAIN memories :
        accRaised[id] = 0 /\ Cardinality(AccessInFlight(id)) >= 2

(* C9: update_memory on an existing id returns True and changes exactly the
   supplied fields among title, content, metadata and importance_score of
   that memory; every other field and every other memory is unchanged. *)
C9_UpdateChangesSuppliedFields ==
    [][(/\ last'.op = "update_memory"
        /\ calls' = calls + 1
        /\ last'.id \in DOMAIN memories)
       => LET id == last'.id
              a == last'.args
              old == memories[id]
          IN  /\ ~last'.raised
              /\ last'.ret
              /\ DOMAIN memories' = DOMAIN memories
              /\ \A j \in DOMAIN memories \ {id} : memories'[j] = memories[j]
              /\ memories'[id] =
                     [old EXCEPT
                        !.title = IF IsNone(a.title) THEN old.title ELSE a.title,
                        !.content = IF IsNone(a.content) THEN old.content ELSE a.content[1],
                        !.metadata = IF IsNone(a.metadata) THEN old.metadata
                                     ELSE JsonDumps(a.metadata[1]),
                        !.importance_score = IF IsNone(a.importance_score)
                                             THEN old.importance_score
                                             ELSE a.importance_score[1]]]_vars

(* C10: for an id that is not in memories, get_memory returns None,
   update_memory and delete_memory return False, none raises, and memories,
   the index and embeddings are unchanged. *)
C10_MissingIdIsNoOp ==
    [][(/\ last'.op \in {"get_memory", "update_memory", "delete_memory"}
        /\ last' # last
        /\ last'.id \notin DOMAIN memories)
       => /\ ~last'.raised
          /\ last'.op = "get_memory" => IsNone(last'.ret)
          /\ last'.op # "get_memory" => last'.ret = FALSE
          /\ memories' = memories
          /\ memories_fts' = memories_fts
          /\ embeddings' = embeddings]_vars

(* delete_memory returned False for an id that was deleted before and whose
   embeddings row and postings are still there *)
C10_Witness ==
    /\ last.op = "delete_memory"
    /\ ~last.ret
    /\ last.id \in DOMAIN embeddings
    /\ Postings(last.id) # {}

(* a metadata argument that JSON can represent: no mapping, or a mapping
   whose values are lists *)
JsonValue(metadata) ==
    IsNone(metadata) \/ \A k \in DOMAIN metadata[1] : metadata[1][k].py = "list"

(* C11: get_memory of the id that add_memory(m) returned gives a Memory with
   the content, memory_type, title, metadata, source_type, source_id and
   importance_score of m, access_count 0 and no last_accessed. *)
C11_GetAfterAdd ==
    [][(/\ last.op = "add_memory"
        /\ JsonValue(last.args.metadata)
        /\ last'.op = "get_memory"
        /\ last'.id = last.id)
       => /\ ~IsNone(last'.ret)
          /\ LET mem == last'.ret[1]
                  m == last.args
              IN  /\ mem.id = last.id
                  /\ mem.content = m.content
                  /\ mem.memory_type = m.memory_type
                  /\ mem.title = m.title
                  /\ mem.metadata = IF IsNone(m.metadata) THEN EmptyDict ELSE m.metadata[1]
                  /\ mem.source_type = m.source_type
                  /\ mem.source_id = m.source_id
                  /\ mem.importance_score = m.importance_score
                  /\ mem.access_count = 0
                  /\ IsNone(mem.last_accessed)]_vars

(* get_memory has returned a memory that was added with a title, a tags
   list, a source id and an importance of its own, next to an older memory *)
C11_Witness ==
    /\ last.op = "get_memory"
    /\ ~IsNone(last.ret)
    /\ last.id = lastRowId
    /\ last.id > 1
    /\ last.ret[1].metadata = TagsDict
    /\ ~IsNone(last.ret[1].title)
    /\ last.ret[1].source_id = Some("log1")
    /\ last.ret[1].importance_score = 25

RetIds == {last.ret[k].id : k \in 1..Len(last.ret)}

(* C12: hybrid_search(query, top_k) returns at most top_k memories, no
   memory id twice, and the empty list, without raising, when top_k <= 0
   and when the store is empty. *)
C12_AtMostTopK ==
    last.op = "hybrid_search" =>
        /\ ~last.raised
        /\ Len(last.ret) <= Max2(last.top_k, 0)
        /\ Cardinality(RetIds) = Len(last.ret)
        /\ last.top_k <= 0 \/ DOMAIN memories = {} => last.ret = << >>

(* a search with top_k = 2 over three memories, none of them too similar
   to another, that returned two *)
C12_Witness ==
    /\ last.op = "hybrid_search"
    /\ last.top_k = 2
    /\ Len(last.ret) = 2
    /\ Len(last.ranked) = 3
    /\ Len(_diversify_results(last.ranked, 3, embeddings)) = 3

(* position of a memory id in the ranked candidate list of the last search *)
RankOf(id) == CHOOSE k \in 1..Len(last.ranked) : last.ranked[k].memory.id = id

TooSimilar(i, j) ==
    /\ i \in DOMAIN embeddings
    /\ j \in DOMAIN embeddings
    /\ cosine_similarity(deserialize_embedding(embeddings[i].embedding),
                         deserialize_embedding(embeddings[j].embedding)) > SimilarityThreshold

(* C13: in the list hybrid_search returns no memory is more than 0.95
   similar to a memory returned before it, and a ranked candidate is left out
   only if top_k candidates ranked above it were admitted or it is more
   than 0.95 similar to an admitted candidate ranked above it. *)
C13_GreedyDiverse ==
    last.op = "hybrid_search" =>
        /\ \A a \in 1..Len(last.ret) : \A b \in (a + 1)..Len(last.ret) :
               ~TooSimilar(last.ret[a].id, last.ret[b].id)
        /\ \A k \in 1..Len(last.ranked) :
               LET id == last.ranked[k].memory.id
                   above == {j \in RetIds : RankOf(j) < k}
               IN  id \notin RetIds =>
                       \/ Cardinality(above) >= last.top_k
                       \/ \E j \in above : TooSimilar(id, j)

(* a search that returned fewer than top_k memories because a candidate was
   too similar to one ranked above it *)
C13_Witness ==
    /\ last.op = "hybrid_search"
    /\ Len(last.ret) >= 1
    /\ Len(last.ret) < last.top_k
    /\ Len(last.ranked) > Len(last.ret)

(* the weight hybrid_search uses for a factor: the caller's, else the default *)
WeightOf(key) ==
    IF ~IsNone(last.weights) /\ key \in DOMAIN last.weights[1]
    THEN last.weights[1][key]
    ELSE DefaultWeights[key]

FinalOf(id) == last.ranked[RankOf(id)].final_score

(* C14: the memories hybrid_search returns are in non-increasing order of
   final score, where final = w_keyword*keyword + w_semantic*semantic +
   w_recency*recency + w_importance*importance, the weights being 0.3, 0.5,
   0.1, 0.1 unless the caller supplies them. *)
C14_OrderedByFinalScore ==
    last.op = "hybrid_search" =>
        /\ \A k \in 1..Len(last.ranked) :
               LET c == last.ranked[k]
               IN  /\ c.final_score = WeightOf("keyword_score") * c.keyword_score
                                      + WeightOf("semantic_score") * c.semantic_score
                                      + WeightOf("recency") * c.recency_score
                                      + WeightOf("importance") * c.importance_score
                   /\ c.importance_score = c.memory.importance_score
        /\ \A a \in 1..Len(last.ret) : \A b \in (a + 1)..Len(last.ret) :
               FinalOf(last.ret[a].id) >= FinalOf(last.ret[b].id)

(* a search with the caller's weights that returned a newer memory before
   an older one, the first with the strictly higher final score *)
C14_Witness ==
    /\ last.op = "hybrid_search"
    /\ ~IsNone(last.weights)
    /\ Len(last.ret) = 2
    /\ last.ret[1].id > last.ret[2].id
    /\ FinalOf(last.ret[1].id) > FinalOf(last.ret[2].id)

(* the memories that have an embeddings row: the semantic candidates *)
Embedded == DOMAIN embeddings \cap DOMAIN memories

(* C15: for a keyword query with a syntax error _fts_search gives no
   candidate and raises nothing, and hybrid_search returns the ranking of
   the semantic candidates alone: every memory with an embedding is ranked,
   with keyword score 0 and its cosine similarity to the query, and no
   other memory is. *)
C15_MalformedQueryFailsSoft ==
    (last.op = "hybrid_search" /\ FtsSyntaxError(last.query)) =>
        /\ ~last.raised
        /\ _fts_search(memories_fts, last.query, KeywordLimit) = << >>
        /\ {last.ranked[k].memory.id : k \in 1..Len(last.ranked)} = Embedded
        /\ \A k \in 1..Len(last.ranked) :
               LET c == last.ranked[k]
               IN  /\ c.keyword_score = 0
                   /\ c.semantic_score =
                          cosine_similarity(embed_text(last.query),
                              deserialize_embedding(embeddings[c.memory.id].embedding))
        /\ RetIds \subseteq Embedded
        /\ (last.top_k > 0 /\ Embedded # {}) => last.ret # << >>

(* a search with a malformed query that returned a memory while the store
   also held a memory without an embedding *)
C15_Witness ==
    /\ last.op = "hybrid_search"
    /\ FtsSyntaxError(last.query)
    /\ last.ret # << >>
    /\ DOMAIN memories \ DOMAIN embeddings # {}

(* C16: when the embedding step of add_memory_with_embedding fails after
   the memory row is stored, the failure is caught: the call returns the new
   id without raising, the memory is stored and has no embeddings row. *)
C16_EmbeddingFailureCaught ==
    (last.op = "add_memory_with_embedding" /\ ~last.embedder_ok) =>
        /\ ~last.raised
        /\ last.id \in DOMAIN memories
        /\ last.id \notin DOMAIN embeddings

(* C17: after rebuild_embeddings has run on a store of N memories the
   embeddings table holds exactly N rows, one per existing memory, each
   tagged with the embedder's model name and made from the memory's present
   title and content. *)
C17_RebuildOnePerMemory ==
    last.op = "rebuild_embeddings" =>
        /\ DOMAIN embeddings = DOMAIN memories
        /\ \A i \in DOMAIN embeddings :
               embeddings[i] = EmbeddingRow(memories[i].title, memories[i].content)

EndsWith(s, suffix) ==
    Len(s) >= Len(suffix) /\ SubSeq(s, Len(s) - Len(suffix) + 1, Len(s)) = suffix

(* a line consisting of ---, and a header line --- Title --- *)
IsRuleLine(line) == line = Dashes

IsHeaderLine(line) ==
    Len(line) > 2 * Len(Dashes) /\ StartsWith(line, Dashes) /\ EndsWith(line, Dashes)

(* the records of a text: a rule line ends a record and belongs to none, a
   header line ends a record and is the first line of the next *)
RECURSIVE RecordsFrom(_, _)
RecordsFrom(lines, record) ==
    IF lines = << >> THEN <<record>>
    ELSE IF IsRuleLine(Head(lines)) THEN <<record>> \o RecordsFrom(Tail(lines), << >>)
    ELSE IF IsHeaderLine(Head(lines)) THEN <<record>> \o RecordsFrom(Tail(lines), <<Head(lines)>>)
    ELSE RecordsFrom(Tail(lines), Append(record, Head(lines)))

(* a record with a title or content: it has a line that is not blank *)
HasText(record) == \E i \in 1..Len(record) : Strip(record[i]) # << >>

RecordsOf(file) == SelectSeq(RecordsFrom(Split(file, <<NL>>), << >>), HasText)

(* the ids the last import has inserted *)
Imported == last.first..lastRowId

(* C18: migrate_from_notes_txt splits the text into records only at lines
   consisting of --- and at --- Title --- header lines, inserts one memory
   for every record that has a title or content and none for a record with
   neither, and returns the number of memories it inserted; every inserted
   memory has memory_type 'note' and source_type 'migrated'. *)
C18_ImportOnePerRecord ==
    last.op = "migrate_from_notes_txt" =>
        /\ ~last.raised
        /\ Imported \subseteq DOMAIN memories
        /\ last.ret = Cardinality(Imported)
        /\ last.ret = Len(RecordsOf(last.file))
        /\ \A id \in Imported :
               memories[id].memory_type = "note" /\ memories[id].source_type = "migrated"

(* the first line of a text that is not blank *)
FirstText(lines) ==
    CHOOSE i \in 1..Len(lines) :
        Strip(lines[i]) # << >> /\ \A j \in 1..(i - 1) : Strip(lines[j]) = << >>

(* a text that is one record: it has a line that is not blank, and no line
   begins with --- but a header line that is its first line of text *)
OneRecord(file) ==
    LET lines == Split(file, <<NL>>)
    IN  /\ \E i \in 1..Len(lines) : Strip(lines[i]) # << >>
        /\ \A i \in 1..Len(lines) :
               StartsWith(lines[i], Dashes) => i = FirstText(lines) /\ IsHeaderLine(lines[i])

(* a title line without its --- wrapper *)
WrapperOff(line) ==
    LET l == Strip(line)
        open == IF StartsWith(l, Dashes) THEN Drop(l, Len(Dashes)) ELSE l
    IN  Strip(IF EndsWith(open, Dashes) THEN SubSeq(open, 1, Len(open) - Len(Dashes)) ELSE open)

IsTagsLineOf(line) == IsTagsLine(Strip(line))

IsRemainingLine(line) == IsContentLine(Strip(line))

(* C19: for an imported record the title is the first non-empty line with
   the --- wrapper removed, metadata.tags is the comma-separated list of the
   Tags: line with the entries trimmed and the empty entries dropped, and
   content is exactly the remaining lines (all lines but the title line, the
   Date: line and the Tags: line) joined by newlines and trimmed. *)
C19_ImportedFields ==
    (last.op = "migrate_from_notes_txt" /\ OneRecord(last.file)) =>
        LET lines == Split(last.file, <<NL>>)
            rest == SubSeq(lines, FirstText(lines) + 1, Len(lines))
            tagLines == SelectSeq(rest, IsTagsLineOf)
        IN  /\ last.ret = 1
            /\ memories[lastRowId].title = Some(WrapperOff(lines[FirstText(lines)]))
            /\ tagLines # << >> =>
                   /\ "tags" \in DOMAIN JsonLoads(memories[lastRowId].metadata)
                   /\ JsonLoads(memories[lastRowId].metadata).tags
                          = PyList(TagList(Strip(Erase(tagLines[Len(tagLines)], <<"Tags:">>))))
            /\ memories[lastRowId].content = Strip(Join(SelectSeq(rest, IsRemainingLine), <<NL>>))

(* C20: the consolidator stores every insight of type 'fact' as
   memory_type 'fact' and every insight of type 'preference' or 'topic' as
   memory_type 'insight', each through add_memory_with_embedding, with
   source_type 'consolidated' and source_id the name of the session log it
   came from. *)
C20_InsightsStoredByType ==
    last.op = "consolidate_session" =>
        /\ ~last.raised
        /\ lastRowId = last.first + Len(last.insights) - 1
        /\ \A k \in 1..Len(last.insights) :
               LET insight == last.insights[k]
                   id == last.first + k - 1
               IN  /\ id \in DOMAIN memories
                   /\ insight.type = "fact" => memories[id].memory_type = "fact"
                   /\ insight.type \in {"preference", "topic"}
                          => memories[id].memory_type = "insight"
                   /\ memories[id].title = Some(insight.title)
                   /\ memories[id].content = insight.content
                   /\ memories[id].source_type = "consolidated"
                   /\ memories[id].source_id = Some(last.name)
                   /\ last.embedder_ok =>
                          /\ id \in DOMAIN embeddings
                          /\ embeddings[id] = EmbeddingRow(Some(insight.title), insight.content)
        /\ last.embedder_ok => last.ret = Len(last.insights)

(* a fact and a topic of the second session log have been stored next to
   an insight of the first log *)
C20_Witness ==
    /\ last.op = "consolidate_session"
    /\ last.ret = 2
    /\ last.insights[1].type = "fact"
    /\ last.insights[2].type = "topic"
    /\ \E id \in DOMAIN memories :
           /\ id < last.first
           /\ memories[id].source_type = "consolidated"
           /\ memories[id].source_id # Some(last.name)

(* the elements of the last answer that are objects with a title and content *)
ValidEntries ==
    SelectSeq(last.response.array, IsValidInsight)

(* C21: when the answer of the language model holds entries that are no
   object or lack title or content, only these are dropped and every valid
   entry of the batch is stored, in the order of the batch; an answer that is
   empty or cannot be parsed gives zero insights, stores nothing, and the
   caller of consolidate_session sees no error. *)
C21_InvalidEntriesDroppedAlone ==
    last.op = "consolidate_session" =>
        /\ ~last.raised
        /\ lastRowId = last.first + Len(ValidEntries) - 1
        /\ \A k \in 1..Len(ValidEntries) :
               /\ last.first + k - 1 \in DOMAIN memories
               /\ memories[last.first + k - 1].title = Some(ValidEntries[k].fields.title)
               /\ memories[last.first + k - 1].content = ValidEntries[k].fields.content
        /\ last.embedder_ok => last.ret = Len(ValidEntries)
        /\ (~last.response.parsed \/ last.response.array = << >>) =>
               last.ret = 0 /\ lastRowId = last.first - 1

(* a full batch whose first entry is invalid and was dropped, and whose
   other entries were stored *)
C21_Witness ==
    /\ last.op = "consolidate_session"
    /\ Len(last.response.array) = MaxInsights
    /\ ~IsValidInsight(last.response.array[1])
    /\ IsValidInsight(last.response.array[MaxInsights])
    /\ last.ret = MaxInsights - 1
    /\ lastRowId \in DOMAIN memories
    /\ memories[lastRowId].source_type = "consolidated"

(* embed_text on each text in turn, from cache on: what the calls return and
   the cache they leave *)
RECURSIVE EachInTurn(_, _)
EachInTurn(cache, texts) ==
    IF texts = << >> THEN [ret |-> << >>, cache |-> cache]
    ELSE LET first == EmbedText(cache, Head(texts))
             others == EachInTurn(first.cache, Tail(texts))
         IN  [ret |-> <<first.ret>> \o others.ret, cache |-> others.cache]

(* C22: for every list of texts and every prior state of the cache,
   embed_batch(texts) returns a list as long as texts whose i-th element is
   what embed_text(texts[i]) returns, the zero vector for an empty or blank
   text, and leaves the cache as calling embed_text on each text in turn
   leaves it. *)
C22_BatchEqualsEach ==
    last.op = "embed_batch" =>
        /\ Len(last.ret) = Len(last.texts)
        /\ \A i \in 1..Len(last.texts) :
               /\ last.ret[i] = EmbedText(last.before, last.texts[i]).ret
               /\ last.ret[i] = embed_text(last.texts[i])
               /\ IsBlank(last.texts[i]) => last.ret[i] = Zero
        /\ last.ret = EachInTurn(last.before, last.texts).ret
        /\ _cache = EachInTurn(last.before, last.texts).cache

(* a batch of a cached text, a blank text and a new text, in this order: the
   new text, third in the batch, is the only one encoded *)
C22_Witness ==
    /\ last.op = "embed_batch"
    /\ Len(last.texts) = 3
    /\ _get_cache_key(last.texts[1]) \in DOMAIN last.before
    /\ IsBlank(last.texts[2]) /\ last.texts[2] # EmptyText
    /\ ~IsBlank(last.texts[3])
    /\ _get_cache_key(last.texts[3]) \notin DOMAIN last.before
    /\ last.ret[3] # last.ret[1]

(* the texts a thread has encoded and not yet stored *)
Unstored(t) ==
    IF ethr[t].pc = "store" THEN {ethr[t].text}
    ELSE IF ethr[t].pc = "b_store"
    THEN {ethr[t].texts[ethr[t].indices[j]] : j \in ethr[t].j..Len(ethr[t].indices)}
    ELSE {}

(* C23: under any interleaving of embed_text and embed_batch calls on one
   EmbeddingService every cache entry maps the digest of a text to the
   vector the model gives for that text, and every call returns the vector
   of its own text (the zero vector for a blank one); a race only makes a
   text be encoded more than once. *)
C23_CacheNeverCorrupt ==
    /\ \A key \in DOMAIN _cache : _cache[key] = ModelEncode(key.md5)
    /\ last.op \in {"embed_text", "embed_batch"} =>
           /\ Len(last.ret) = Len(last.texts)
           /\ \A i \in 1..Len(last.texts) : last.ret[i] = embed_text(last.texts[i])

(* two threads have both encoded the same text and neither has stored it *)
C23_Witness ==
    \E t1 \in Threads, t2 \in Threads :
        t1 # t2 /\ Unstored(t1) \cap Unstored(t2) # {}

(* one point in time lies before the other *)
Earlier(a, b) == a.day < b.day \/ (a.day = b.day /\ a.time < b.time)

(* C24: get_all_memories and search_by_source_type return the memories
   newest first by creation time, for any mix of memories that add_memory
   has created (timestamp given by the database) and that
   migrate_from_notes_txt has created (timestamp given by the importer). *)
C24_ListedNewestFirst ==
    last.op \in {"get_all_memories", "search_by_source_type"} =>
        \A a \in 1..Len(last.ret) : \A b \in (a + 1)..Len(last.ret) :
            ~Earlier(last.ret[a].timestamp, last.ret[b].timestamp)

(* C25: the server sends a "stopped" message only when recording has
   stopped and processing is complete: in the step that sends it no prompt
   of the session is left in _pending_utterances and no task of
   _process_utterances is waiting for the agent. *)
BeingProcessed(pt) == \E i \in DOMAIN pt : pt[i].pc = "agent"

C25_StoppedWhenProcessed ==
    [][(sent' # << >> /\ sent'[1].type = "stopped")
           => /\ session'.recording_state # "recording"
              /\ session'._pending_utterances = << >>
              /\ ~BeingProcessed(processing')]_vars

(* C26: while the WebSocket stays connected, every prompt passed to
   _enqueue_prompt is in the end answered with exactly one agent_response or
   agent_error, in the order of the enqueuing, whatever the recording state:
   the answers sent are at every moment those to the first prompts enqueued,
   the k-th prompt enqueued leads to a k-th answer unless the connection is
   lost, and at most one task of _process_utterances is running. *)
Running(pt) == {i \in DOMAIN pt : pt[i].pc \notin {"done", "cancelled"}}

AnswersInOrder ==
    /\ Len(answered) <= Len(enqueued)
    /\ \A k \in 1..Len(answered) :
           /\ answered[k].type \in {"agent_response", "agent_error"}
           /\ answered[k].prompt = enqueued[k].raw_text

MaxEnqueued == MaxHeard + MaxReceived

C26_EveryPromptAnswered ==
    /\ [](Cardinality(Running(processing)) <= 1 /\ AnswersInOrder)
    /\ \A k \in 1..MaxEnqueued :
           (Len(enqueued) >= k) ~> (Len(answered) >= k \/ ~session.ws_connected)

C26_Witness ==
    /\ session.ws_connected
    /\ Len(enqueued) = 2 /\ Len(answered) = 2
    /\ enqueued[1].mode = "voice" /\ enqueued[2].mode = "chat"
    /\ answered[1].type = "agent_error"
    /\ session.recording_state = "idle"

(* C27: a stop received while recording brings the session back to idle as
   soon as the Speechmatics session is closed, without waiting for the
   prompts: every step of handle_stop can be taken whatever the processing
   task does, and the step after the close (and after the flush of the
   pending text) leaves recording_state idle; and a start that follows is
   accepted even while the processing task runs: it is not answered with
   an error, a new Speechmatics session is started, and recording begins
   when Speechmatics accepts it. *)
StopPcs == {"stop_close", "stop_flush", "stop_state"}

LastStepOfStop ==
    \/ loop.pc = "stop_flush"
    \/ loop.pc = "stop_close" /\ loop.pending_text \in {NoneVal, Some(EmptyText)}

StartAccepted ==
    /\ handle_start(TRUE, TRUE)
    /\ loop'.pc = "start" /\ sent' = << >>
    /\ ~IsNone(session'.speechmatics) /\ session'.speechmatics[1].state = "starting"

StartSucceeds ==
    start_session(TRUE, TRUE, TRUE) /\ session'.recording_state = "recording"

C27_StopFreesRecording ==
    /\ [](loop.pc \in StopPcs => ENABLED HandlerStep)
    /\ [](loop.pc = "stop_state" => session.recording_state = "idle")
    /\ [](Receiving /\ session.recording_state = "idle" => ENABLED StartAccepted)
    /\ [](loop.pc = "start" => ENABLED StartSucceeds)
    /\ [][LastStepOfStop /\ loop' # loop
              => session'.recording_state = "idle" /\ loop'.pc = "stop_state"]_vars

C27_Witness ==
    /\ session.recording_state = "recording"
    /\ received = 3
    /\ Len(enqueued) = 1 /\ enqueued[1].mode = "voice"
    /\ answered = << >>
    /\ \E i \in DOMAIN processing : processing[i].pc = "agent"

(* C28: in SecondBrainApp the prompts are processed one by one: whatever
   the add_to_queue calls, at most one task of process_queue is active and
   at most one prompt has the status PROCESSING. *)
ActiveTasks == {i \in DOMAIN atasks : atasks[i].pc \in {"agent", "sleep"}}

C28_OneByOne ==
    /\ Cardinality(ActiveTasks) <= 1
    /\ Cardinality({id \in DOMAIN prompts : prompts[id].status = "processing"}) <= 1

(* C29: _rerank normalizes the keyword scores by minimum and maximum over
   the merged candidates of the query at hand, the candidates found by the
   semantic search alone taking part with 0: afterwards every keyword score
   lies in [0,1], a candidate with the largest raw score has 1 and one with
   the smallest has 0 when the two differ, all have 0 when they are equal,
   and the semantic scores are those of the merge. *)
Range(seq) == {seq[i] : i \in 1..Len(seq)}

RawOf(id) == CHOOSE c \in Range(last.candidates) : c.memory.id = id

RawKeyword == {c.keyword_score : c \in Range(last.candidates)}

C29_KeywordMinMax ==
    last.op = "hybrid_search" =>
        /\ Len(last.ranked) = Len(last.candidates)
        /\ \A r \in Range(last.ranked) :
               /\ r.keyword_score >= 0 /\ r.keyword_score <= 100
               /\ r.semantic_score = RawOf(r.memory.id).semantic_score
               /\ IF Cardinality(RawKeyword) = 1 THEN r.keyword_score = 0
                  ELSE /\ (\A x \in RawKeyword : RawOf(r.memory.id).keyword_score >= x)
                           => r.keyword_score = 100
                       /\ (\A x \in RawKeyword : RawOf(r.memory.id).keyword_score <= x)
                           => r.keyword_score = 0

(* two keyword hits with different scores, none of them 0 *)
C29_Witness ==
    /\ last.op = "hybrid_search"
    /\ Cardinality(RawKeyword) = 2 /\ 0 \notin RawKeyword
    /\ \E r \in Range(last.ranked) : r.keyword_score = 100
    /\ \E r \in Range(last.ranked) : r.keyword_score = 0

(* C30: _merge_results yields exactly one candidate for every id that the
   keyword search or the semantic search found and that resolves to a
   memory, and none for an id that resolves to no memory; a candidate
   carries the memory of its id, the keyword score and the semantic score
   its id was found with, each unchanged, and 0 for a search that did not
   find it. *)
FoundIds == DOMAIN last.keyword_results \cup DOMAIN last.semantic_results

ScoreIn(results, id) == IF id \in DOMAIN results THEN results[id] ELSE 0

C30_MergeOnePerId ==
    last.op = "hybrid_search" =>
        /\ {c.memory.id : c \in Range(last.candidates)} = FoundIds \cap DOMAIN memories
        /\ Len(last.candidates) = Cardinality(FoundIds \cap DOMAIN memories)
        /\ \A c \in Range(last.candidates) :
               /\ Some(c.memory) = GetMemory(memories, c.memory.id)
               /\ c.keyword_score = ScoreIn(last.keyword_results, c.memory.id)
               /\ c.semantic_score = ScoreIn(last.semantic_results, c.memory.id)

(* a merge of an id that both searches found, with both of its scores, and
   of an id that resolves to no memory *)
C30_Witness ==
    /\ last.op = "hybrid_search"
    /\ FoundIds \ DOMAIN memories # {}
    /\ \E c \in Range(last.candidates) : c.keyword_score > 0 /\ c.semantic_score > 0

----------------------------------------------------------------------------
(* the ranked candidates of the last search that have no embeddings row *)
Unembedded == {k \in 1..Len(last.ranked) : last.ranked[k].memory.id \notin DOMAIN embeddings}

(* the returned memories ranked above position k *)
AdmittedAbove(k) == {j \in RetIds : RankOf(j) < k}

(* C31: in the diversity filter a candidate that has no embedding row is
   never suppressed (it is returned whenever fewer than top_k candidates
   ranked above it were admitted) and never causes another candidate to be
   suppressed (a candidate left out while fewer than top_k were admitted has
   an embedding and is more than 0.95 similar to an admitted candidate that
   has an embedding). *)
C31_UnembeddedNeverSuppressed ==
    last.op = "hybrid_search" =>
        /\ \A k \in Unembedded :
               \/ last.ranked[k].memory.id \in RetIds
               \/ Cardinality(AdmittedAbove(k)) >= last.top_k
        /\ \A k \in 1..Len(last.ranked) :
               LET id == last.ranked[k].memory.id
               IN  (id \notin RetIds /\ Cardinality(AdmittedAbove(k)) < last.top_k) =>
                       /\ id \in DOMAIN embeddings
                       /\ \E j \in AdmittedAbove(k) :
                              /\ j \in DOMAIN embeddings
                              /\ RankOf(j) \notin Unembedded
                              /\ TooSimilar(id, j)

(* a search that returned a candidate without an embedding ranked below an
   admitted one, and one that returned a candidate ranked below an admitted
   candidate without an embedding *)
C31_Witness ==
    /\ last.op = "hybrid_search"
    /\ \E k \in Unembedded :
           /\ last.ranked[k].memory.id \in RetIds
           /\ \/ AdmittedAbove(k) # {}
              \/ \E b \in (k + 1)..Len(last.ranked) : last.ranked[b].memory.id \in RetIds

----------------------------------------------------------------------------
(* the threads inside rebuild_embeddings *)
Rebuilding == {t \in Threads : thr[t].pc \in RebuildPcs}

(* C32: rebuild_embeddings commits once per batch, and while it runs each
   memory that had an embedding when it started has its embeddings row, the
   old one or the new one, in every state a reader on the connection can
   observe: a read of such a memory's row finds it. *)
C32_RebuildReplacesTogether ==
    /\ \A t \in Rebuilding :
           /\ \A id \in thr[t].had : id \in DOMAIN embeddings
           /\ thr[t].commits * thr[t].batch_size = thr[t].i
           /\ (last.op = "read_embedding" /\ last.id \in thr[t].had) => last.found
    /\ (last.op = "rebuild_embeddings" /\ ~last.raised) => last.commits = last.batches

----------------------------------------------------------------------------
(* the error texts that hold "429" or "RESOURCE_EXHAUSTED" *)
RateLimitErrors ==
    {e \in InternalErrors :
        \E i \in 1..Len(e) : e[i] = "RESOURCE_EXHAUSTED"
                               \/ (i + 2 <= Len(e) /\ e[i] = "4" /\ e[i + 1] = "2" /\ e[i + 2] = "9")}

(* outcome k of the call was a rate limit error *)
RateLimited(k) == agent.log[k].raised /\ agent.log[k].value \in RateLimitErrors

(* C33: process_utterance_with_tools calls the internal function at most
   max_retries times; every call but the last ended in a rate limit error;
   it returns the result of the first call that succeeds; an error that is
   not a rate limit error is raised as it is, with no further call; and
   when max_retries calls ended in a rate limit error it returns the "Rate
   limit exceeded" result. *)
C33_RetriesOnlyRateLimits ==
    agent.pc # "idle" =>
        /\ Len(agent.log) <= Max2(agent.max_retries, 0)
        /\ \A k \in 1..(Len(agent.log) - 1) : RateLimited(k)
        /\ agent.pc \in {"sleep", "internal"} =>
               /\ \A k \in 1..Len(agent.log) : RateLimited(k)
               /\ Len(agent.log) = agent.attempt
        /\ agent.pc = "raised" =>
               /\ agent.log # << >>
               /\ ~RateLimited(Len(agent.log))
               /\ agent.log[Len(agent.log)] = [raised |-> TRUE, value |-> agent.error]
        /\ agent.pc = "returned" =>
               \/ /\ agent.log # << >>
                  /\ agent.log[Len(agent.log)] = [raised |-> FALSE, value |-> agent.result]
               \/ /\ \A k \in 1..Len(agent.log) : RateLimited(k)
                  /\ Len(agent.log) = Max2(agent.max_retries, 0)
                  /\ agent.result.response[1] = "Rate limit exceeded after "
                  /\ agent.result.tools_used = << >>

(* a call that returned the result of its third attempt, after a "429"
   error and a "RESOURCE_EXHAUSTED" error *)
C33_Witness ==
    /\ agent.pc = "returned"
    /\ Len(agent.log) = 3
    /\ ~agent.log[3].raised
    /\ agent.log[1].value # agent.log[2].value

----------------------------------------------------------------------------
(* a step of handle_start for a "start" received while recording *)
StartWhileRecording ==
    /\ session.recording_state = "recording"
    /\ \E api_key \in BOOLEAN, ok \in BOOLEAN : handle_start(api_key, ok)

(* C34: a "start" received while recording is acknowledged with "started"
   (when the send goes through), makes no Speechmatics session and leaves
   the session and the recording state as they are; recording_state becomes
   "recording" only in the step in which the Speechmatics session has
   started; and whenever a message is awaited while recording, a Speechmatics
   session in state running is attached. *)
C34_StartIdempotent ==
    /\ [][StartWhileRecording =>
             /\ session'.speechmatics = session.speechmatics
             /\ session'.recording_state = "recording"
             /\ loop' = loop
             /\ sent' = <<[type |-> "started"]>> \/ ~session'.ws_connected]_vars
    /\ [][(session.recording_state # "recording" /\ session'.recording_state = "recording") =>
             /\ loop.pc = "start"
             /\ ~IsNone(session'.speechmatics)
             /\ session.speechmatics[1].state = "starting"
             /\ session'.speechmatics[1].state = "running"]_vars
    /\ []((loop.pc = "receive" /\ session.recording_state = "recording") => SpeechmaticsRunning)

----------------------------------------------------------------------------
(* the state of the SpeechmaticsSession the session made last: from its
   field while the session refers to it, from shutdown.state after close()
   took it away, "none" where no coroutine refers to one *)
SpeechmaticsState ==
    IF ~IsNone(session.speechmatics) THEN session.speechmatics[1].state
    ELSE IF ~IsNone(shutdown.state) THEN shutdown.state[1]
    ELSE "none"

(* handle_start makes a new SpeechmaticsSession *)
NewSessionMade == loop.pc = "receive" /\ loop'.pc = "start"

StateSteps ==
    {<<"starting", "running">>, <<"starting", "error">>, <<"running", "closing">>,
     <<"error", "closing">>, <<"closing", "closed">>}

(* C37: a SpeechmaticsSession goes from STARTING to RUNNING or ERROR and
   then to CLOSING and CLOSED, also while close() of the shutdown runs next
   to a start that awaits the session start; a CLOSED session stays CLOSED. *)
C37_ClosedIsTerminal ==
    [][(~NewSessionMade /\ SpeechmaticsState' # "none"
            /\ SpeechmaticsState' # SpeechmaticsState)
           => <<SpeechmaticsState, SpeechmaticsState'>> \in StateSteps]_vars

----------------------------------------------------------------------------
(* the prompts a task of process_queue has in hand *)
InHand(id) == {i \in DOMAIN atasks : atasks[i].pc = "agent" /\ atasks[i].prompt = id}

(* C35: every prompt passed to add_to_queue is in the end moved from
   prompt_queue to completed_prompts, once, with the status COMPLETED or
   ERROR; completed_prompts lists the prompts in the order they were queued;
   no prompt is given to the agent by two tasks, none is popped unprocessed
   and no task pops from an empty queue. *)
C35_EveryPromptCompletedOnce ==
    /\ [](\A k \in 1..Len(app.completed_prompts) :
              /\ app.completed_prompts[k] = k
              /\ prompts[k].status \in {"completed", "error"})
    /\ [](\A id \in DOMAIN prompts : Cardinality(InHand(id)) <= 1)
    /\ [](\A i \in DOMAIN atasks : atasks[i].pc # "raised")
    /\ [](Len(app.completed_prompts) + Len(app.prompt_queue) = app.prompt_counter)
    /\ \A id \in 1..MaxPrompts :
           (app.prompt_counter >= id) ~> (Len(app.completed_prompts) >= id)

----------------------------------------------------------------------------
(* C36: in a ClientSession the text of a spoken utterance is enqueued for
   the agent at most once: no two of the voice prompts passed to
   _enqueue_prompt carry the same text, whether they come from the flush of
   handle_stop or from the END_OF_UTTERANCE callback. *)
C36_UtteranceEnqueuedOnce ==
    \A a \in 1..Len(enqueued) : \A b \in (a + 1)..Len(enqueued) :
        (enqueued[a].mode = "voice" /\ enqueued[b].mode = "voice")
            => enqueued[a].raw_text # enqueued[b].raw_text

(* the stored vector of memory i is not the vector of its current text *)
StaleEmbedding(i) ==
    /\ i \in DOMAIN embeddings \cap DOMAIN memories
    /\ embeddings[i] # EmbeddingRow(memories[i].title, memories[i].content)

(* C38: update_memory leaves the embeddings table as it was, whatever it
   changes in the memory, so every semantic search gives the same scores
   after the update as before it; and the semantic score of a memory in
   hybrid_search is the similarity of the query to the stored vector, not to
   the memory's current text. *)
C38_UpdateKeepsEmbedding ==
    /\ [][(\E id \in Ids, a \in UpdateArgs : update_memory(id, a))
          => /\ embeddings' = embeddings
             /\ \A q \in Queries :
                    _vector_search(embeddings', memories', q, SemanticLimit)
                        = _vector_search(embeddings, memories, q, SemanticLimit)]_vars
    /\ [](last.op = "hybrid_search"
          => \A i \in DOMAIN last.semantic_results :
                 last.semantic_results[i]
                     = cosine_similarity(embed_text(last.query),
                                         deserialize_embedding(embeddings[i].embedding)))

(* a search scored a memory whose text was updated after its vector was
   stored, and the score differs from the one its current text would get *)
C38_Witness ==
    /\ last.op = "hybrid_search"
    /\ \E i \in DOMAIN last.semantic_results :
           /\ StaleEmbedding(i)
           /\ last.semantic_results[i]
                  # cosine_similarity(embed_text(last.query),
                                      embed_text(EmbeddingText(memories[i].title,
                                                               memories[i].content)))

(* C39: the number consolidate_session returns from _save_insights is the
   number of memories the call added to the store, whether or not the
   embedding of an insight could be made. *)
C39_SavedCountIsAdded ==
    [][(\E name \in SessionLogs, response \in Answers, ok \in BOOLEAN :
            consolidate_session(name, response, ok))
       => last'.ret = Cardinality(DOMAIN memories' \ DOMAIN memories)]_vars

(* the ids that some row of memories, of the index or of embeddings carries *)
IdsInUse ==
    DOMAIN memories \cup DOMAIN embeddings \cup {p[1] : p \in memories_fts.postings}

(* C40: every id a step assigns to a new memory is larger than lastRowId
   was, and lastRowId never decreases and is at least every id in memories,
   in the index and in embeddings; so a new id is larger than every id
   assigned before it, also after deletes, and nothing a deleted memory
   left behind carries it. *)
C40_IdsNeverReused ==
    /\ [][/\ lastRowId' >= lastRowId
          /\ \A id \in DOMAIN memories' \ DOMAIN memories :
                 id > lastRowId /\ id <= lastRowId']_vars
    /\ [](\A id \in IdsInUse : id <= lastRowId)

(* a memory was added after the memory with the largest id was deleted *)
C40_Witness ==
    /\ last.op \in {"add_memory", "migrate_from_notes_txt"}
    /\ lastRowId >= 2
    /\ lastRowId \in DOMAIN memories
    /\ lastRowId - 1 \notin DOMAIN memories

============================================================================
